---- MODULE Spec2Model ----
(***************************************************************************)
(* Backstop emissions manager of the Blend v2 backstop contract            *)
(* (backstop/src/emissions/manager.rs): reward zone management, the global *)
(* distribution of emitter tokens over the reward zone, and the per-pool   *)
(* gulp that realises a pool's share.  The pool contract's auction fills, *)
(* status updates and reserve administration (pool/src/contract.rs) are   *)
(* modelled after it, with specifications of their own.                   *)
(*                                                                         *)
(* Every contract invocation is atomic: a panic reverts all storage        *)
(* writes of the invocation.  A failed call therefore changes nothing: the *)
(* outcome of a call in a state (its error, its return value, the records  *)
(* it writes) is the value of the operator named after the function.       *)
(*                                                                         *)
(* Number ranges.  TLC evaluates 32-bit integers, so the contract's i128   *)
(* arithmetic is modelled as checked signed arithmetic of a narrower       *)
(* width (I128_MAX below stands for i128::MAX) and the fixed-point scalars *)
(* keep their relation SCALAR_14 = SCALAR_7^2 with fewer digits.  Seconds  *)
(* are real seconds (60*60, 24*60*60, 7*24*60*60 as in the source).        *)
(***************************************************************************)
EXTENDS Integers, Sequences, FiniteSets, TLC

(***************************************************************************)
(* Bounds of the model                                                     *)
(***************************************************************************)
\* number of pools that exist; the first three hold deposits in every
\* specification, the others only where the reward zone is larger (SpecZone)
NumPools == 4
\* number of times the ledger clock advances in a behaviour
MaxTicks == 2

Pools == 1..NumPools

(***************************************************************************)
(* Program constants                                                       *)
(***************************************************************************)
\* constants::SCALAR_7, with one fractional digit instead of seven
SCALAR_7 == 10
\* constants::SCALAR_14, the square of SCALAR_7
SCALAR_14 == SCALAR_7 * SCALAR_7
\* constants::MAX_RZ_SIZE, 50 in the contract: the size the contract is built
\* with in every specification but SpecZone, which builds it one larger
MAX_RZ_SIZE == 2
\* i128::MAX of the narrower integer width of the model (2^30 - 1)
I128_MAX == 1073741823
I128_MIN == (0 - I128_MAX) - 1
\* constants::MAX_BACKFILLED_EMISSIONS: a whole number of tokens times SCALAR_7
MAX_BACKFILLED_TOKENS == 100000
MAX_BACKFILLED_EMISSIONS == MAX_BACKFILLED_TOKENS * SCALAR_7
\* the ledger timestamp the unit tests start from
T0 == 1713139200

HOUR == 60 * 60
DAY == 24 * 60 * 60
WEEK == 7 * 24 * 60 * 60

\* Outcome of a call: "Ok", a BackstopError ("BadRequest" 1000,
\* "InvalidRewardZoneEntry" 1002, "RewardZoneFull" 1009, "MaxBackfillEmissions"
\* 1010) or "Trap", the host trap of unwrap_optimized on None and of an
\* arithmetic overflow.
Errors == {"BadRequest", "InvalidRewardZoneEntry", "RewardZoneFull",
           "MaxBackfillEmissions", "Trap"}

VARIABLES
    now,                    \* e.ledger().timestamp()
    ticks,                  \* how often the clock advanced (bounds the model)
    emitter,                \* the Emitter's record of this backstop
    reward_zone,            \* storage reward_zone: sequence of pools
    rz_emission_index,      \* storage rz_emission_index
    rz_emis_data,           \* storage rz_emis(pool): Option<RzEmissionData>
    last_distribution_time, \* storage last_distribution_time (0: never)
    backfill_status,        \* storage backfill_status: Option<bool>
    backfill_emissions,     \* storage backfill_emissions
    pool_balance,           \* storage pool_balance(pool): PoolBalance
    allowance,              \* BLND allowance of each pool from the backstop
    backstop_emis_data,     \* storage backstop_emis(pool): Option<BackstopEmissionData>
    credited,               \* sum of the values returned by distribute
    paid,                   \* per pool: sum of what gulp_emissions returned
    sequence,               \* e.ledger().sequence()
    auction,                \* pool storage auction(type, user): Option<AuctionData>
    fills,                  \* how many fills were called (bounds the model)
    last_fill,              \* the fill made in the current ledger, if any
    pool_status,            \* PoolConfig.status
    q4w_pct,                \* backstop pool_data: percent of deposits queued
    met_threshold,          \* backstop pool_data: minimum deposit reached
    status_calls,           \* what the latest update_status calls returned
    res_queue,              \* pool storage: reserves queued for initialization
    res_list,               \* pool storage res_list
    wide,                   \* the storage of the full-width scenario
    max_rz_size             \* the MAX_RZ_SIZE the contract was built with

backstop_vars == <<max_rz_size, now, ticks, emitter, reward_zone, rz_emission_index,
                   rz_emis_data, last_distribution_time, backfill_status,
                   backfill_emissions, pool_balance, allowance,
                   backstop_emis_data, credited, paid>>
auction_vars == <<sequence, auction, fills, last_fill>>
status_vars == <<pool_status, q4w_pct, met_threshold, status_calls, res_queue,
                 res_list>>
pool_vars == <<auction_vars, status_vars>>

vars == <<backstop_vars, pool_vars, wide>>

(***************************************************************************)
(* Fixed-point arithmetic (soroban_fixed_point_math::FixedPoint for i128)  *)
(* An Option<i128> is a record [ok, val]; ok = FALSE is None.              *)
(***************************************************************************)
Abs(x) == IF x < 0 THEN 0 - x ELSE x

Some(v) == [ok |-> TRUE, val |-> v]
None == [ok |-> FALSE, val |-> 0]

\* i128::checked_mul: None when the product leaves [I128_MIN, I128_MAX]
checked_mul(x, y) ==
    IF x = 0 \/ y = 0 THEN Some(0)
    ELSE IF Abs(x) <= I128_MAX \div Abs(y) THEN Some(x * y)
    ELSE IF (x < 0) # (y < 0) /\ Abs(x) <= (I128_MAX + 1) \div Abs(y)
              /\ Abs(x) * Abs(y) = I128_MAX + 1 THEN Some(I128_MIN)
    ELSE None

\* div_floor(r, z): floor of r / z, None when z = 0
div_floor(r, z) ==
    IF z = 0 THEN None
    ELSE IF z > 0 THEN Some(r \div z)
    ELSE Some((0 - r) \div (0 - z))

\* x.fixed_mul_floor(y, denominator) = floor(x * y / denominator)
fixed_mul_floor(x, y, denominator) ==
    LET r == checked_mul(x, y)
    IN IF r.ok THEN div_floor(r.val, denominator) ELSE None

\* x.fixed_div_floor(y, denominator) = floor(x * denominator / y)
fixed_div_floor(x, y, denominator) ==
    LET r == checked_mul(x, denominator)
    IN IF r.ok THEN div_floor(r.val, y) ELSE None

\* an i128 addition with overflow checks: None when it overflows
checked_add(x, y) ==
    IF x + y > I128_MAX \/ x + y < I128_MIN THEN None ELSE Some(x + y)

(***************************************************************************)
(* PoolBalance                                                             *)
(***************************************************************************)
\* PoolBalance::convert_to_tokens: the tokens a number of shares is worth
convert_to_tokens(b, shares) ==
    IF b.shares = 0 THEN shares ELSE (shares * b.tokens) \div b.shares

\* a variant that takes q4w for a number of tokens
non_queued_tokens_raw(b) == b.tokens - b.q4w

\* PoolBalance::non_queued_tokens: tokens not queued for withdrawal
non_queued_tokens(b) == b.tokens - convert_to_tokens(b, b.q4w)

(***************************************************************************)
(* Realisation of a pool's share (update_rz_emis_data, set_rz_emissions)   *)
(***************************************************************************)
NoRzData == [some |-> FALSE, index |-> 0, accrued |-> 0]
RzEmissionData(index, accrued) == [some |-> TRUE, index |-> index, accrued |-> accrued]

\* a variant that keeps the accrued amount in the record when it is gulped
set_rz_emissions_not_zeroed(index, accrued, to_gulp) ==
    [err |-> "Ok", data |-> RzEmissionData(index, accrued),
     ret |-> IF to_gulp THEN accrued ELSE 0]

\* set_rz_emissions: the record written and the value returned
set_rz_emissions(index, accrued, to_gulp) ==
    IF to_gulp
    THEN [err |-> "Ok", data |-> RzEmissionData(index, 0), ret |-> accrued]
    ELSE [err |-> "Ok", data |-> RzEmissionData(index, accrued), ret |-> 0]

\* the guard of update_rz_emis_data: is there anything to realise
rz_needs_update(emission_data, gulp_index, to_gulp) ==
    emission_data.index < gulp_index \/ to_gulp

\* the emissions a pool earned for the growth of the index since its record
rz_new_emissions(non_queued, gulp_index, index) ==
    fixed_mul_floor(non_queued, gulp_index - index, SCALAR_14)

\* a variant that reads a missing record as the default record
update_rz_emis_data_default(emission_data, b, gulp_index, to_gulp) ==
    LET d == IF emission_data.some THEN emission_data ELSE RzEmissionData(0, 0)
    IN IF rz_needs_update(d, gulp_index, to_gulp)
       THEN IF non_queued_tokens(b) > 0
            THEN LET new_emissions ==
                         rz_new_emissions(non_queued_tokens(b), gulp_index, d.index)
                     accrued == IF new_emissions.ok
                                THEN checked_add(d.accrued, new_emissions.val)
                                ELSE None
                 IN IF accrued.ok
                    THEN set_rz_emissions(gulp_index, accrued.val, to_gulp)
                    ELSE [err |-> "Trap", data |-> emission_data, ret |-> 0]
            ELSE set_rz_emissions(gulp_index, d.accrued, to_gulp)
       ELSE [err |-> "Ok", data |-> emission_data, ret |-> 0]

\* update_rz_emis_data(pool, to_gulp) on record emission_data of a pool with
\* balance b under the global index gulp_index: [err, data, ret]
update_rz_emis_data(emission_data, b, gulp_index, to_gulp) ==
    IF ~emission_data.some
    THEN [err |-> "Ok", data |-> emission_data, ret |-> 0]
    ELSE IF rz_needs_update(emission_data, gulp_index, to_gulp)
    THEN IF non_queued_tokens(b) > 0
         THEN LET new_emissions ==
                      rz_new_emissions(non_queued_tokens(b), gulp_index, emission_data.index)
                  accrued == IF new_emissions.ok
                             THEN checked_add(emission_data.accrued, new_emissions.val)
                             ELSE None
              IN IF accrued.ok
                 THEN set_rz_emissions(gulp_index, accrued.val, to_gulp)
                 ELSE [err |-> "Trap", data |-> emission_data, ret |-> 0]
         ELSE set_rz_emissions(gulp_index, emission_data.accrued, to_gulp)
    ELSE [err |-> "Ok", data |-> emission_data, ret |-> 0]

(***************************************************************************)
(* distribute                                                              *)
(***************************************************************************)
\* try_get_last_distro: does the Emitter recognise this backstop
is_backfill == ~emitter.registered

\* a variant that always takes the ledger timestamp
ledger_time_always == now

\* the effective distribution time: the Emitter's, or the ledger's in a backfill run
emitter_last_distribution == IF is_backfill THEN now ELSE emitter.last_distro

\* a variant without the reset after a backfill run
never_reset == FALSE

\* the first acknowledged run after a backfill run
needs_reset == ~is_backfill /\ backfill_status = "SomeTrue"

\* a variant that writes Some(false) whenever the Emitter answers
next_backfill_status_cleared ==
    IF is_backfill
    THEN IF backfill_status = "None" THEN "SomeTrue" ELSE backfill_status
    ELSE "SomeFalse"

\* the Err arm: a status that was never set becomes Some(true)
status_on_err ==
    IF backfill_status = "None" THEN "SomeTrue" ELSE backfill_status

\* a variant of the Ok arm that clears the status after a backfill run
status_on_ok_cleared ==
    IF backfill_status = "SomeTrue" THEN "None" ELSE backfill_status

\* the Ok arm: the status Some(true) becomes Some(false)
status_on_ok ==
    IF backfill_status = "SomeTrue" THEN "SomeFalse" ELSE backfill_status

\* the backfill status as written in the match on the Emitter's answer
next_backfill_status ==
    IF is_backfill THEN status_on_err ELSE status_on_ok

\* a variant that lets a distribution run over an empty reward zone
reward_zone_empty_ignored(rz) == FALSE

\* the guard against distributing to an empty reward zone
reward_zone_empty(rz) == Len(rz) = 0

\* a variant that accepts a distribution exactly one hour after the last
too_soon_strict(emitter_time, last_distribution) ==
    emitter_time < last_distribution + HOUR

\* the guard against distributing too soon after the last distribution
too_soon(emitter_time, last_distribution) ==
    emitter_time <= last_distribution + HOUR

\* a variant that counts seconds without scaling them to token units
new_emissions_unscaled(emitter_time, last_distribution) ==
    emitter_time - last_distribution

\* emitter releases 1 token per second
new_emissions_of(emitter_time, last_distribution) ==
    (emitter_time - last_distribution) * SCALAR_7

\* a variant that compares against the cap scaled once more by SCALAR_7
over_backfill_cap_rescaled(cur_backfill) ==
    cur_backfill > MAX_BACKFILLED_EMISSIONS * SCALAR_7

\* the cap on backfilled emissions
over_backfill_cap(cur_backfill) == cur_backfill > MAX_BACKFILLED_EMISSIONS

\* a variant in which a crediting run leaves last_distribution_time as it was
last_distribution_kept == last_distribution_time

\* the last_distribution_time a crediting run stores: the effective time
advanced_last_distribution == emitter_last_distribution

\* a variant that accumulates the emissions of every run
stored_backfill_every_run(cur_backfill) == cur_backfill

\* the backfill accumulator as stored by a run: only a backfill run adds to it
stored_backfill(cur_backfill) ==
    IF is_backfill THEN cur_backfill ELSE backfill_emissions

\* sum of non_queued_tokens over the first n pools of the reward zone, each
\* addition with overflow checks: None when the sum leaves the range of i128
RECURSIVE total_non_queued_tokens(_, _)
total_non_queued_tokens(rz, n) ==
    IF n = 0 THEN Some(0)
    ELSE LET total == total_non_queued_tokens(rz, n - 1)
         IN IF total.ok
            THEN checked_add(total.val, non_queued_tokens(pool_balance[rz[n]]))
            ELSE None

\* a variant that scales the index by SCALAR_7 in place of SCALAR_14
additional_index_scalar_7(new_emissions, total) ==
    fixed_div_floor(new_emissions, total, SCALAR_7)

\* the growth of the global index for new_emissions over total tokens
additional_index(new_emissions, total) ==
    fixed_div_floor(new_emissions, total, SCALAR_14)

\* a variant that overwrites the index with the growth
advance_index_overwrite(prev_index, add) == Some(add)

\* the global index after a distribution: None when the addition overflows
advance_index(prev_index, add) == checked_add(prev_index, add)

\* a failed invocation: the host discards every storage write the invocation
\* made so far (written), and the storage is what it was before the call
host_rollback(err, written) ==
    [err |-> err, ret |-> 0, status |-> backfill_status,
     last |-> last_distribution_time, backfill |-> backfill_emissions,
     index |-> rz_emission_index]

\* a variant that returns 0 where distribute panics: the call ends without an
\* error and the writes made so far persist
return_early(err, written) ==
    [err |-> "Ok", ret |-> 0, status |-> written.status, last |-> written.last,
     backfill |-> written.backfill, index |-> written.index]

\* panic_with_error!(e, err) after the writes in written: the invocation fails
panic_with_error(err, written) == host_rollback(err, written)

\* Outcome of distribute in the current state:
\* [err, ret, status, last, backfill, index]
distribute ==
    LET new_emissions ==
            new_emissions_of(emitter_last_distribution, last_distribution_time)
        \* cur_backfill += new_emissions, with overflow checks
        cur_backfill == checked_add(backfill_emissions, new_emissions)
        \* the storage as written up to the guards, and up to the sum of tokens
        at_guards == [status |-> next_backfill_status, last |-> last_distribution_time,
                      backfill |-> backfill_emissions, index |-> rz_emission_index]
        at_sum == [status |-> next_backfill_status, last |-> advanced_last_distribution,
                   backfill |-> stored_backfill(cur_backfill.val),
                   index |-> rz_emission_index]
        total == total_non_queued_tokens(reward_zone, Len(reward_zone))
        add == IF total.ok THEN additional_index(new_emissions, total.val) ELSE None
        new_index == IF add.ok THEN advance_index(rz_emission_index, add.val) ELSE None
    IN IF last_distribution_time = 0 \/ needs_reset
       THEN [err |-> "Ok", ret |-> 0, status |-> next_backfill_status,
             last |-> emitter_last_distribution, backfill |-> backfill_emissions,
             index |-> rz_emission_index]
       ELSE IF reward_zone_empty(reward_zone)
            THEN panic_with_error("BadRequest", at_guards)
       ELSE IF too_soon(emitter_last_distribution, last_distribution_time)
            THEN panic_with_error("BadRequest", at_guards)
       ELSE IF is_backfill /\ ~cur_backfill.ok
            THEN host_rollback("Trap", at_guards)
       ELSE IF is_backfill /\ over_backfill_cap(cur_backfill.val)
            THEN panic_with_error("MaxBackfillEmissions", at_guards)
       ELSE IF ~new_index.ok THEN host_rollback("Trap", at_sum)
       ELSE [err |-> "Ok", ret |-> new_emissions, status |-> at_sum.status,
             last |-> at_sum.last, backfill |-> at_sum.backfill,
             index |-> new_index.val]

\* a call of distribute()
Distribute ==
    \E o \in {distribute} :
       /\ backfill_status' = o.status
       /\ last_distribution_time' = o.last
       /\ backfill_emissions' = o.backfill
       /\ rz_emission_index' = o.index
       /\ credited' = credited + o.ret
       /\ UNCHANGED <<wide, max_rz_size, pool_vars, now, ticks, emitter, reward_zone, rz_emis_data, pool_balance,
                      allowance, backstop_emis_data, paid>>

(***************************************************************************)
(* Reward zone                                                             *)
(***************************************************************************)
\* a variant that never finds the pool
contains_never(rz, pool) == FALSE

\* Vec::contains
contains(rz, pool) == \E i \in 1..Len(rz) : rz[i] = pool

\* Vec::first_index_of, 1-based; 0 when absent
first_index_of(rz, pool) ==
    IF contains(rz, pool)
    THEN CHOOSE i \in 1..Len(rz) : rz[i] = pool /\ \A j \in 1..(i - 1) : rz[j] # pool
    ELSE 0

\* a variant that fills the gap with the last member (Vec::swap_remove)
remove_swap(rz, idx) ==
    [i \in 1..(Len(rz) - 1) |-> IF i = idx THEN rz[Len(rz)] ELSE rz[i]]

\* Vec::remove(idx)
remove_at(rz, idx) == [i \in 1..(Len(rz) - 1) |-> IF i < idx THEN rz[i] ELSE rz[i + 1]]

\* Vec::push_front
push_front(rz, pool) == <<pool>> \o rz

\* a variant that also rejects a distribution exactly 24 hours old
distribution_too_old_inclusive(last_distribution, timestamp) ==
    last_distribution <= timestamp - DAY

\* the freshness guard of an eviction: was distribute run in the last 24 hours
distribution_too_old(last_distribution, timestamp) ==
    last_distribution < timestamp - DAY

\* a variant that drops what the evicted pool had accrued
evicted_emis_data_reset(to_remove_emis_data) == RzEmissionData(I128_MAX, 0)

\* the record an evicted pool is left with
evicted_emis_data(to_remove_emis_data) ==
    RzEmissionData(I128_MAX, to_remove_emis_data.accrued)

\* remove_pool(reward_zone, to_remove) on zone rz and records data: [err, rz, data]
remove_pool(rz, data, to_remove) ==
    LET idx == first_index_of(rz, to_remove)
    IN IF idx = 0
       THEN [err |-> "InvalidRewardZoneEntry", rz |-> rz, data |-> data]
       ELSE IF distribution_too_old(last_distribution_time, now)
       THEN [err |-> "BadRequest", rz |-> rz, data |-> data]
       ELSE IF ~data[to_remove].some
       THEN [err |-> "Trap", rz |-> rz, data |-> data]
       ELSE [err |-> "Ok", rz |-> remove_at(rz, idx),
             data |-> [data EXCEPT ![to_remove] = evicted_emis_data(data[to_remove])]]

\* a variant that is off by one: room is found in a full reward zone
has_room_off_by_one(rz) == max_rz_size >= Len(rz)

\* is there room in the reward zone
has_room(rz) == max_rz_size > Len(rz)

\* a variant that lets a pool with an equal deposit swap in
swap_rejected_below(to_add_tokens, to_remove_tokens) == to_add_tokens < to_remove_tokens

\* the deposit comparison of a swap: to_add must hold strictly more than to_remove
swap_rejected(to_add_tokens, to_remove_tokens) == to_add_tokens <= to_remove_tokens

\* a variant that writes no record for a pool that has none
added_emis_data_missing(to_add_emis_data, index) ==
    IF to_add_emis_data.some
    THEN RzEmissionData(index, to_add_emis_data.accrued)
    ELSE to_add_emis_data

\* a variant that keeps the index of a pool that already has a record
added_emis_data_keep_index(to_add_emis_data, index) ==
    IF to_add_emis_data.some
    THEN RzEmissionData(to_add_emis_data.index, to_add_emis_data.accrued)
    ELSE RzEmissionData(index, 0)

\* the record a pool gets when it joins the reward zone
added_emis_data(to_add_emis_data, index) ==
    IF to_add_emis_data.some
    THEN RzEmissionData(index, to_add_emis_data.accrued)
    ELSE RzEmissionData(index, 0)

\* add_to_reward_zone(to_add, to_remove); to_remove = 0 is None, and
\* above_threshold is the answer of require_pool_above_threshold for to_add,
\* which depends on the LP token's composition: [err, rz, data]
add_to_reward_zone(to_add, to_remove, above_threshold) ==
    LET fail(err) == [err |-> err, rz |-> reward_zone, data |-> rz_emis_data]
        done(rz, data) ==
            [err |-> "Ok", rz |-> push_front(rz, to_add),
             data |-> [data EXCEPT ![to_add] =
                                      added_emis_data(data[to_add], rz_emission_index)]]
        removed == remove_pool(reward_zone, rz_emis_data, to_remove)
    IN IF contains(reward_zone, to_add) THEN fail("BadRequest")
       ELSE IF ~above_threshold THEN fail("InvalidRewardZoneEntry")
       ELSE IF has_room(reward_zone) THEN done(reward_zone, rz_emis_data)
       ELSE IF to_remove = 0 THEN fail("RewardZoneFull")
       ELSE IF swap_rejected(pool_balance[to_add].tokens, pool_balance[to_remove].tokens)
            THEN fail("InvalidRewardZoneEntry")
       ELSE IF removed.err # "Ok" THEN fail(removed.err)
       ELSE done(removed.rz, removed.data)

\* remove_from_reward_zone(to_remove), above_threshold as above: [err, rz, data]
remove_from_reward_zone(to_remove, above_threshold) ==
    IF above_threshold
    THEN [err |-> "BadRequest", rz |-> reward_zone, data |-> rz_emis_data]
    ELSE remove_pool(reward_zone, rz_emis_data, to_remove)

\* a call of add_to_reward_zone(to_add, to_remove)
AddToRewardZone(to_add, to_remove, above_threshold) ==
    \E o \in {add_to_reward_zone(to_add, to_remove, above_threshold)} :
       /\ reward_zone' = o.rz
       /\ rz_emis_data' = o.data
       /\ UNCHANGED <<wide, max_rz_size, pool_vars, now, ticks, emitter, rz_emission_index, last_distribution_time,
                      backfill_status, backfill_emissions, pool_balance,
                      allowance, backstop_emis_data, credited, paid>>

\* a call of remove_from_reward_zone(to_remove)
RemoveFromRewardZone(to_remove, above_threshold) ==
    \E o \in {remove_from_reward_zone(to_remove, above_threshold)} :
       /\ reward_zone' = o.rz
       /\ rz_emis_data' = o.data
       /\ UNCHANGED <<wide, max_rz_size, pool_vars, now, ticks, emitter, rz_emission_index, last_distribution_time,
                      backfill_status, backfill_emissions, pool_balance,
                      allowance, backstop_emis_data, credited, paid>>

(***************************************************************************)
(* gulp_emissions and the backstop EPS allocator                           *)
(***************************************************************************)
NoBackstopData == [some |-> FALSE, eps |-> 0, expiration |-> 0, index |-> 0, last_time |-> 0]
BackstopEmissionData(eps, expiration, index, last_time) ==
    [some |-> TRUE, eps |-> eps, expiration |-> expiration, index |-> index,
     last_time |-> last_time]

\* the literals 0_7000000 and 0_3000000: 70% and 30% in SCALAR_7 fixed point
BACKSTOP_SHARE == (7 * SCALAR_7) \div 10
POOL_SHARE == (3 * SCALAR_7) \div 10

\* distributor::update_emission_data: advance the pool's backstop index to the
\* current time under the stored eps: [err, data].  A pool without shares is
\* skipped; the division is by the shares that are not queued, and traps when
\* all of them are queued
update_emission_data(emis_data, b) ==
    IF ~emis_data.some THEN [err |-> "Ok", data |-> emis_data]
    ELSE IF emis_data.last_time >= emis_data.expiration
            \/ now = emis_data.last_time
            \/ emis_data.eps = 0
            \/ b.shares = 0
    THEN [err |-> "Ok", data |-> emis_data]
    ELSE LET max_timestamp == IF now > emis_data.expiration
                              THEN emis_data.expiration ELSE now
             emitted == checked_mul(max_timestamp - emis_data.last_time, emis_data.eps)
             add == IF emitted.ok
                    THEN fixed_div_floor(emitted.val, b.shares - b.q4w, SCALAR_7)
                    ELSE None
             index == IF add.ok THEN checked_add(emis_data.index, add.val) ELSE None
         IN IF index.ok
            THEN [err |-> "Ok",
                  data |-> BackstopEmissionData(emis_data.eps, emis_data.expiration,
                                                index.val, now)]
            ELSE [err |-> "Trap", data |-> emis_data]

\* a variant that forgets the tokens of the running window
carry_over_dropped(eps, expiration, timestamp) == Some(0)

\* the tokens of the running window that are not emitted yet
carry_over(eps, expiration, timestamp) ==
    IF expiration > timestamp
    THEN fixed_mul_floor(eps, expiration - timestamp, SCALAR_7)
    ELSE Some(0)

\* the eps that emits tokens_left_to_emit over one week (the division truncates
\* toward zero); None when the product overflows or the u64 conversion fails
eps_of(tokens_left_to_emit) ==
    LET scaled == checked_mul(tokens_left_to_emit, SCALAR_7)
        quotient == IF scaled.val >= 0 THEN scaled.val \div WEEK
                    ELSE 0 - ((0 - scaled.val) \div WEEK)
    IN IF scaled.ok /\ quotient >= 0 THEN Some(quotient) ELSE None

\* set_backstop_emission_eps(pool, pool_balance, new_tokens): [err, data]
set_backstop_emission_eps(emis_data, b, new_tokens) ==
    LET updated == update_emission_data(emis_data, b)
        carry == carry_over(updated.data.eps, updated.data.expiration, now)
        tokens_left_to_emit ==
            IF carry.ok THEN checked_add(new_tokens, carry.val) ELSE None
        eps == IF tokens_left_to_emit.ok THEN eps_of(tokens_left_to_emit.val) ELSE None
        first_eps == eps_of(new_tokens)
    IN IF updated.err # "Ok" THEN [err |-> updated.err, data |-> emis_data]
       ELSE IF updated.data.some
       THEN IF eps.ok
            THEN [err |-> "Ok",
                  data |-> BackstopEmissionData(eps.val, now + WEEK,
                                                updated.data.index, now)]
            ELSE [err |-> "Trap", data |-> emis_data]
       ELSE IF first_eps.ok
            THEN [err |-> "Ok",
                  data |-> BackstopEmissionData(first_eps.val, now + WEEK, 0, now)]
            ELSE [err |-> "Trap", data |-> emis_data]

\* the 70% of a realised amount that goes to the pool's backstop depositors
backstop_part(new_emissions) == fixed_mul_floor(new_emissions, BACKSTOP_SHARE, SCALAR_7)

\* a variant that rounds the pool's part up
pool_part_ceil(new_emissions) ==
    Some((new_emissions * POOL_SHARE + SCALAR_7 - 1) \div SCALAR_7)

\* the 30% of a realised amount that the pool may draw as allowance
pool_part(new_emissions) == fixed_mul_floor(new_emissions, POOL_SHARE, SCALAR_7)

\* gulp_emissions(pool): [err, data, ret, ret2, allowance, bdata]
gulp_emissions(pool) ==
    LET fail(err) == [err |-> err, data |-> rz_emis_data[pool], ret |-> 0, ret2 |-> 0,
                      allowance |-> allowance[pool], bdata |-> backstop_emis_data[pool]]
        u == update_rz_emis_data(rz_emis_data[pool], pool_balance[pool],
                                 rz_emission_index, TRUE)
        new_backstop_emissions == backstop_part(u.ret)
        new_pool_emissions == pool_part(u.ret)
        new_allowance == checked_add(allowance[pool], new_pool_emissions.val)
        eps == set_backstop_emission_eps(backstop_emis_data[pool], pool_balance[pool],
                                         new_backstop_emissions.val)
    IN IF u.err # "Ok" THEN fail(u.err)
       ELSE IF u.ret > 0
       THEN IF ~new_backstop_emissions.ok \/ ~new_pool_emissions.ok THEN fail("Trap")
            ELSE IF ~new_allowance.ok THEN fail("Trap")
            ELSE IF eps.err # "Ok" THEN fail(eps.err)
            ELSE [err |-> "Ok", data |-> u.data,
                  ret |-> new_backstop_emissions.val, ret2 |-> new_pool_emissions.val,
                  allowance |-> new_allowance.val,
                  bdata |-> eps.data]
       ELSE [err |-> "Ok", data |-> u.data, ret |-> 0, ret2 |-> 0,
             allowance |-> allowance[pool], bdata |-> backstop_emis_data[pool]]

\* a call of gulp_emissions(pool)
GulpEmissions(pool) ==
    \E o \in {gulp_emissions(pool)} :
       /\ rz_emis_data' = [rz_emis_data EXCEPT ![pool] = o.data]
       /\ allowance' = [allowance EXCEPT ![pool] = o.allowance]
       /\ backstop_emis_data' = [backstop_emis_data EXCEPT ![pool] = o.bdata]
       /\ paid' = [paid EXCEPT ![pool] = @ + o.ret + o.ret2]
       /\ UNCHANGED <<wide, max_rz_size, pool_vars, now, ticks, emitter, reward_zone, rz_emission_index,
                      last_distribution_time, backfill_status, backfill_emissions,
                      pool_balance, credited>>

\* a call of update_rz_emis_data(pool, false), as made before a pool's
\* balance changes
UpdateRzEmisData(pool) ==
    \E o \in {update_rz_emis_data(rz_emis_data[pool], pool_balance[pool], rz_emission_index, FALSE)} :
       /\ rz_emis_data' = [rz_emis_data EXCEPT ![pool] = o.data]
       /\ UNCHANGED <<wide, max_rz_size, pool_vars, now, ticks, emitter, reward_zone, rz_emission_index,
                      last_distribution_time, backfill_status, backfill_emissions,
                      pool_balance, allowance, backstop_emis_data, credited, paid>>

(***************************************************************************)
(* Environment: ledger clock, Emitter, backstop deposits                   *)
(***************************************************************************)
PoolBalance(tokens, shares, q4w) == [tokens |-> tokens, shares |-> shares, q4w |-> q4w]

\* the balance of a pool nobody has deposited to
NoDeposits == PoolBalance(0, 0, 0)

\* the pools that hold backstop deposits, for which the calls of a behaviour
\* are made ("to_add" can only carry a pool balance if it is a deployed pool
\* from the factory); the other pools hold nothing
Funded == 1..3

\* the deposits the pools hold: non-queued tokens 1, 6 and 0
InitialBalances ==
    { <<PoolBalance(2, 2, 1), PoolBalance(8, 3, 1), PoolBalance(4, 4, 4)>> }

\* by how much the ledger clock advances between calls
TickSteps == {HOUR, DAY}

\* the ledger closes: time passes
Tick(d) ==
    /\ ticks < MaxTicks
    /\ ticks' = ticks + 1
    /\ now' = now + d
    /\ UNCHANGED <<wide, max_rz_size, pool_vars, emitter, reward_zone, rz_emission_index, rz_emis_data,
                   last_distribution_time, backfill_status, backfill_emissions,
                   pool_balance, allowance, backstop_emis_data, credited, paid>>

\* Emitter::swap_backstop: the Emitter starts to recognise this backstop
EmitterSwap ==
    /\ ~emitter.registered
    /\ emitter' = [registered |-> TRUE, last_distro |-> now]
    /\ UNCHANGED <<wide, max_rz_size, pool_vars, now, ticks, reward_zone, rz_emission_index, rz_emis_data,
                   last_distribution_time, backfill_status, backfill_emissions,
                   pool_balance, allowance, backstop_emis_data, credited, paid>>

\* the Emitter stops answering get_last_distro for this backstop (it holds no
\* record of the backstop any more, or the call fails): try_get_last_distro
\* returns Err from now on
EmitterDrop ==
    /\ emitter.registered
    /\ emitter' = [registered |-> FALSE, last_distro |-> 0]
    /\ UNCHANGED <<wide, max_rz_size, pool_vars, now, ticks, reward_zone, rz_emission_index, rz_emis_data,
                   last_distribution_time, backfill_status, backfill_emissions,
                   pool_balance, allowance, backstop_emis_data, credited, paid>>

\* Emitter::distribute: the Emitter releases the tokens up to the current time
EmitterDistribute ==
    /\ emitter.registered
    /\ emitter.last_distro # now
    /\ emitter' = [emitter EXCEPT !.last_distro = now]
    /\ UNCHANGED <<wide, max_rz_size, pool_vars, now, ticks, reward_zone, rz_emission_index, rz_emis_data,
                   last_distribution_time, backfill_status, backfill_emissions,
                   pool_balance, allowance, backstop_emis_data, credited, paid>>

\* queue_withdrawal by every depositor of a pool: the emissions earned so far
\* are realised (update_rz_emis_data without gulp), then all shares are queued
QueueWithdrawal(pool) ==
    \E o \in {update_rz_emis_data(rz_emis_data[pool], pool_balance[pool], rz_emission_index, FALSE)} :
       /\ o.err = "Ok"
       /\ pool_balance[pool].q4w # pool_balance[pool].shares
       /\ rz_emis_data' = [rz_emis_data EXCEPT ![pool] = o.data]
       /\ pool_balance' = [pool_balance EXCEPT ![pool].q4w = pool_balance[pool].shares]
       /\ UNCHANGED <<wide, max_rz_size, pool_vars, now, ticks, emitter, reward_zone, rz_emission_index,
                      last_distribution_time, backfill_status, backfill_emissions,
                      allowance, backstop_emis_data, credited, paid>>

(***************************************************************************)
(* Pool: auctions.  The amounts of a fill are computed as                  *)
(* test_partial_fill_manipulation.rs computes them, with the pool's        *)
(* 7-decimal scalar at full precision (amounts stay below 215 units so     *)
(* that every product fits the integers TLC evaluates).                    *)
(***************************************************************************)
\* test_fixture::SCALAR_7 with all seven fractional digits
AUCTION_SCALAR_7 == 10000000
\* 0.5% per block, in 7 decimals
per_block_scalar == 50000
\* the ledger sequence number at which the auction is created
auction_block == 100

\* how many blocks past auction_block the ledger advances
MaxDif == 401
\* how many fill calls a behaviour holds
MaxFills == 2

NoAuction == [some |-> FALSE, block |-> 0, bid |-> 0, lot |-> 0]
AuctionData(block, bid, lot) == [some |-> TRUE, block |-> block, bid |-> bid, lot |-> lot]
NoFill == [some |-> FALSE, err |-> "Ok", percent |-> 0, before |-> NoAuction,
           paid |-> 0, received |-> 0]

\* the nominal amounts of the auctions that are created: bid (debt), lot (collateral)
AuctionChoices == { <<100, 100>>, <<80, 100>>, <<3, 3>> }
\* the values of percent_filled a filler passes
Percents == {0, 1, 50, 100, 101}

lot_modifier_unclamped(block_dif) == block_dif * per_block_scalar

\* the share of the lot the filler receives, block_dif blocks after creation
lot_modifier(block_dif) ==
    IF block_dif > 200 THEN AUCTION_SCALAR_7
    ELSE block_dif * per_block_scalar

\* the share of the bid the filler pays, block_dif blocks after creation
bid_modifier(block_dif) ==
    IF block_dif > 200
    THEN IF block_dif < 400
         THEN AUCTION_SCALAR_7 - (block_dif - 200) * per_block_scalar
         ELSE 0
    ELSE AUCTION_SCALAR_7

bad_percent_over_only(percent_filled) == percent_filled > 100

\* the check of scale_auction on percent_filled
bad_percent(percent_filled) == percent_filled > 100 \/ percent_filled = 0

\* percent_filled as a 7-decimal fraction (1% is 1_00000)
percent_filled_i128(percent_filled) == percent_filled * 100000

to_fill_base_ceil(amount, percent_filled) ==
    (amount * percent_filled_i128(percent_filled) + AUCTION_SCALAR_7 - 1)
        \div AUCTION_SCALAR_7

\* the nominal amount a fill takes out of the auction
to_fill_base(amount, percent_filled) ==
    (amount * percent_filled_i128(percent_filled)) \div AUCTION_SCALAR_7

\* the amount transferred for a nominal amount under a block modifier
apply_modifier(to_fill, modifier) == (to_fill * modifier) \div AUCTION_SCALAR_7

remaining_amount_kept(amount, to_fill) == amount

\* the nominal amount a fill leaves in the auction
remaining_amount(amount, to_fill) == amount - to_fill

\* the auction entry a fill leaves in storage: none after a fill of 100% or
\* when nothing remains
remaining_auction(a, percent_filled, bid, lot) ==
    IF percent_filled = 100 \/ (bid = 0 /\ lot = 0) THEN NoAuction
    ELSE AuctionData(a.block, bid, lot)

\* fill of auction a with percent_filled at ledger sequence block: the error,
\* what the filler pays and receives, and the auction entry left in storage
scale_auction(a, percent_filled, block) ==
    IF bad_percent(percent_filled)
    THEN [err |-> "BadRequest", paid |-> 0, received |-> 0, remaining |-> a]
    ELSE LET block_dif == block - a.block
             bid_to_fill == to_fill_base(a.bid, percent_filled)
             lot_to_fill == to_fill_base(a.lot, percent_filled)
         IN [err |-> "Ok",
             paid |-> apply_modifier(bid_to_fill, bid_modifier(block_dif)),
             received |-> apply_modifier(lot_to_fill, lot_modifier(block_dif)),
             remaining |-> remaining_auction(a, percent_filled,
                               remaining_amount(a.bid, bid_to_fill),
                               remaining_amount(a.lot, lot_to_fill))]

\* new_auction in the ledger auction_block; fails when the auction exists
NewAuction(bid, lot) ==
    /\ ~auction.some
    /\ sequence = auction_block
    /\ auction' = AuctionData(sequence, bid, lot)
    /\ last_fill' = NoFill
    /\ UNCHANGED <<wide, backstop_vars, sequence, fills, status_vars>>

\* a fill of the auction by a filler other than the user
FillAuction(percent_filled) ==
    LET o == scale_auction(auction, percent_filled, sequence)
    IN /\ auction.some
       /\ fills < MaxFills
       /\ fills' = fills + 1
       /\ auction' = o.remaining
       /\ last_fill' = [some |-> TRUE, err |-> o.err, percent |-> percent_filled,
                       before |-> auction, paid |-> o.paid,
                       received |-> o.received]
       /\ UNCHANGED <<wide, backstop_vars, sequence, status_vars>>

\* the ledger closes: the next block
AdvanceLedger ==
    /\ sequence < auction_block + MaxDif
    /\ sequence' = sequence + 1
    /\ last_fill' = NoFill
    /\ UNCHANGED <<wide, backstop_vars, auction, fills, status_vars>>

(***************************************************************************)
(* Pool: status and reserves (contract.rs).  A call carries whether the    *)
(* pool admin authorised it; a failed require_auth is the error "Auth".    *)
(***************************************************************************)
\* the reserve assets an admin may queue
NumAssets == 2
Assets == 1..NumAssets

\* the share of the pool's backstop deposits queued for withdrawal, in percent
Q4wLevels == {0, 29, 30, 49, 50, 59, 60, 74, 75, 100}

NoCalls == [n |-> 0, prev |-> 0, ret |-> 0]

\* pool::execute_update_pool_status: the status the backstop state puts the
\* pool in; admin-active and admin-on-ice hold until a stronger rule applies
execute_update_pool_status(status, q4w, met) ==
    IF status = 4 THEN [err |-> "BadRequest", status |-> status]
    ELSE [err |-> "Ok",
          status |-> IF q4w >= 75 THEN 5
                     ELSE IF q4w >= 60 /\ status # 2 THEN 5
                     ELSE IF q4w >= 50 \/ ~met THEN 3
                     ELSE IF q4w >= 30 /\ status # 0 THEN 3
                     ELSE IF status = 0 \/ status = 2 THEN status
                     ELSE 1]

\* pool::execute_set_pool_status: the statuses the admin may set and what they
\* require.  Besides the admin states 0, 2 and 4 the admin may put the pool
\* on-ice (3), as deploy_v2_pool does before its first update_status; on-ice
\* requires less than 75% of the backstop queued for withdrawal.
execute_set_pool_status(status, q4w, met, new_status) ==
    IF \/ new_status = 0 /\ met /\ q4w < 50
       \/ new_status = 2 /\ q4w < 75
       \/ new_status = 3 /\ q4w < 75
       \/ new_status = 4
    THEN [err |-> "Ok", status |-> new_status]
    ELSE [err |-> "BadRequest", status |-> status]

update_status_stale ==
    LET o == execute_update_pool_status(pool_status, q4w_pct, met_threshold)
    IN [err |-> o.err, status |-> o.status, ret |-> pool_status]

\* Pool::update_status: stores and returns the new status
update_status ==
    LET o == execute_update_pool_status(pool_status, q4w_pct, met_threshold)
    IN [err |-> o.err, status |-> o.status, ret |-> o.status]

\* Pool::set_status
set_status(new_status, auth) ==
    IF ~auth THEN [err |-> "Auth", status |-> pool_status]
    ELSE execute_set_pool_status(pool_status, q4w_pct, met_threshold, new_status)

\* pool::execute_queue_set_reserve
execute_queue_set_reserve(queue, asset) == queue \cup {asset}

\* pool::execute_cancel_queued_set_reserve
execute_cancel_queued_set_reserve(queue, asset) ==
    IF asset \in queue THEN [err |-> "Ok", queue |-> queue \ {asset}]
    ELSE [err |-> "BadRequest", queue |-> queue]

\* pool::execute_set_reserve: the queued reserve becomes a reserve of the pool
execute_set_reserve(queue, list, asset) ==
    IF asset \notin queue \/ (\E i \in 1..Len(list) : list[i] = asset)
    THEN [err |-> "BadRequest", queue |-> queue, list |-> list, index |-> 0]
    ELSE [err |-> "Ok", queue |-> queue \ {asset}, list |-> Append(list, asset),
          index |-> Len(list)]

\* Pool::queue_set_reserve
queue_set_reserve(asset, auth) ==
    IF ~auth THEN [err |-> "Auth", queue |-> res_queue]
    ELSE [err |-> "Ok", queue |-> execute_queue_set_reserve(res_queue, asset)]

\* Pool::cancel_set_reserve
cancel_set_reserve(asset, auth) ==
    IF ~auth THEN [err |-> "Auth", queue |-> res_queue]
    ELSE execute_cancel_queued_set_reserve(res_queue, asset)

\* Pool::set_reserve: no authorisation is required
set_reserve(asset, auth) == execute_set_reserve(res_queue, res_list, asset)

\* a call of update_status()
UpdateStatus ==
    LET o == update_status
    IN /\ pool_status' = o.status
       /\ status_calls' = IF o.err # "Ok" THEN status_calls
                          ELSE IF status_calls.n = 0
                               THEN [n |-> 1, prev |-> 0, ret |-> o.ret]
                          ELSE [n |-> 2, prev |-> status_calls.ret, ret |-> o.ret]
       /\ UNCHANGED <<wide, backstop_vars, auction_vars, q4w_pct, met_threshold,
                      res_queue, res_list>>

\* a call of set_status(new_status)
SetStatus(new_status, auth) ==
    LET o == set_status(new_status, auth)
    IN /\ pool_status' = o.status
       /\ status_calls' = IF o.err = "Ok" THEN NoCalls ELSE status_calls
       /\ UNCHANGED <<wide, backstop_vars, auction_vars, q4w_pct, met_threshold,
                      res_queue, res_list>>

\* the backstop of the pool changes: deposits, withdrawals and queued withdrawals
BackstopChange(q4w, met) ==
    /\ <<q4w, met>> # <<q4w_pct, met_threshold>>
    /\ q4w_pct' = q4w
    /\ met_threshold' = met
    /\ status_calls' = IF q4w < q4w_pct \/ met # met_threshold
                       THEN NoCalls ELSE status_calls
    /\ UNCHANGED <<wide, backstop_vars, auction_vars, pool_status, res_queue, res_list>>

\* a call of queue_set_reserve(asset, metadata)
QueueSetReserve(asset, auth) ==
    /\ res_queue' = queue_set_reserve(asset, auth).queue
    /\ UNCHANGED <<wide, backstop_vars, auction_vars, pool_status, q4w_pct,
                   met_threshold, status_calls, res_list>>

\* a call of cancel_set_reserve(asset)
CancelSetReserve(asset, auth) ==
    /\ res_queue' = cancel_set_reserve(asset, auth).queue
    /\ UNCHANGED <<wide, backstop_vars, auction_vars, pool_status, q4w_pct,
                   met_threshold, status_calls, res_list>>

\* a call of set_reserve(asset)
SetReserve(asset, auth) ==
    LET o == set_reserve(asset, auth)
    IN /\ res_queue' = o.queue
       /\ res_list' = o.list
       /\ UNCHANGED <<wide, backstop_vars, auction_vars, pool_status, q4w_pct,
                      met_threshold, status_calls>>

\* the pool after construction: no auction, no reserve, no backstop deposit
PoolInit ==
    /\ sequence = auction_block
    /\ auction = NoAuction
    /\ fills = 0
    /\ last_fill = NoFill
    /\ pool_status = 3
    /\ q4w_pct = 0
    /\ met_threshold = FALSE
    /\ status_calls = NoCalls
    /\ res_queue = {}
    /\ res_list = <<>>

(***************************************************************************)
(* The emissions manager at full width.  test_distribute_gulp_no_overflow  *)
(* distributes intervals of 10^10 seconds to a single pool: its amounts    *)
(* need the 128 bits of an i128 and the 64 bits of a u64, more than the    *)
(* integers TLC evaluates.  Here a non-negative integer is the sequence of *)
(* its decimal digits, least significant first, without leading zeros      *)
(* (zero is the empty sequence), and the functions the test runs are       *)
(* written over such numbers with SCALAR_7 = 10^7 and SCALAR_14 = 10^14 as *)
(* in the contract.  No amount of the scenario is negative.                *)
(***************************************************************************)
\* the digits of a number TLC can evaluate
RECURSIVE wide_of(_)
wide_of(n) == IF n = 0 THEN <<>> ELSE <<n % 10>> \o wide_of(n \div 10)

\* the number written with the digits ds, most significant first
RECURSIVE wide_digits(_)
wide_digits(ds) == IF ds = <<>> THEN <<>> ELSE wide_digits(Tail(ds)) \o <<Head(ds)>>

\* 10^k
RECURSIVE wide_pow10(_)
wide_pow10(k) == IF k = 0 THEN <<1>> ELSE <<0>> \o wide_pow10(k - 1)

\* without leading zeros
RECURSIVE wide_trim(_)
wide_trim(a) ==
    IF a # <<>> /\ a[Len(a)] = 0 THEN wide_trim(SubSeq(a, 1, Len(a) - 1)) ELSE a

wide_digit(a, i) == IF i >= 1 /\ i <= Len(a) THEN a[i] ELSE 0

\* a < b
wide_less(a, b) ==
    \/ Len(a) < Len(b)
    \/ /\ Len(a) = Len(b)
       /\ \E i \in 1..Len(a) :
             a[i] < b[i] /\ \A j \in (i + 1)..Len(a) : a[j] = b[j]

\* the digits of the number whose column i is worth cols[i] * 10^(i-1)
RECURSIVE wide_carry(_, _, _)
wide_carry(cols, i, carry) ==
    IF i > Len(cols) THEN wide_of(carry)
    ELSE LET s == cols[i] + carry
         IN <<s % 10>> \o wide_carry(cols, i + 1, s \div 10)

\* a + b
wide_add(a, b) ==
    LET n == IF Len(a) > Len(b) THEN Len(a) ELSE Len(b)
    IN wide_carry([i \in 1..n |-> wide_digit(a, i) + wide_digit(b, i)], 1, 0)

RECURSIVE wide_sub_from(_, _, _, _)
wide_sub_from(a, b, i, borrow) ==
    IF i > Len(a) THEN <<>>
    ELSE LET d == a[i] - wide_digit(b, i) - borrow
         IN <<(d + 10) % 10>> \o wide_sub_from(a, b, i + 1, IF d < 0 THEN 1 ELSE 0)

\* a - b, for a >= b
wide_sub(a, b) == wide_trim(wide_sub_from(a, b, 1, 0))

\* the sum of a[j] * b[k + 1 - j] over j >= i: column k of the product
RECURSIVE wide_column(_, _, _, _)
wide_column(a, b, k, i) ==
    IF i > Len(a) \/ i > k THEN 0
    ELSE a[i] * wide_digit(b, k + 1 - i) + wide_column(a, b, k, i + 1)

\* a * b
wide_mul(a, b) ==
    wide_trim(wide_carry([k \in 1..(Len(a) + Len(b)) |-> wide_column(a, b, k, 1)], 1, 0))

\* the digits of floor(a / b) from position i down, most significant first,
\* by long division; rem is what the digits above i left
RECURSIVE wide_div_from(_, _, _, _)
wide_div_from(a, b, i, rem) ==
    IF i = 0 THEN <<>>
    ELSE LET r == wide_trim(<<a[i]>> \o rem)
             times(k) == wide_mul(b, wide_of(k))
             q == CHOOSE k \in 0..9 : ~wide_less(r, times(k)) /\ wide_less(r, times(k + 1))
         IN <<q>> \o wide_div_from(a, b, i - 1, wide_sub(r, times(q)))

\* floor(a / b), for b > 0
wide_div(a, b) == wide_trim(wide_digits(wide_div_from(a, b, Len(a), <<>>)))

\* i128::MAX = 2^127 - 1 and u64::MAX = 2^64 - 1
WIDE_I128_MAX ==
    wide_digits(<<1, 7, 0, 1, 4, 1, 1, 8, 3, 4, 6, 0, 4, 6, 9, 2, 3, 1, 7, 3,
                  1, 6, 8, 7, 3, 0, 3, 7, 1, 5, 8, 8, 4, 1, 0, 5, 7, 2, 7>>)
WIDE_U64_MAX ==
    wide_digits(<<1, 8, 4, 4, 6, 7, 4, 4, 0, 7, 3, 7, 0, 9, 5, 5, 1, 6, 1, 5>>)

\* constants::SCALAR_7 and constants::SCALAR_14
WIDE_SCALAR_7 == wide_pow10(7)
WIDE_SCALAR_14 == wide_pow10(14)

\* the 10_000_000_000 seconds by which the test moves the ledger
JUMP == wide_pow10(10)

\* how often the test runs distribute and gulp_emissions
Rounds == 100

\* an i128 result: None when it is above i128::MAX
wide_checked(v) == IF wide_less(WIDE_I128_MAX, v) THEN None ELSE Some(v)

\* x + y for a result y: None when y is None or the sum overflows
wide_checked_add(x, y) == IF y.ok THEN wide_checked(wide_add(x, y.val)) ELSE None

\* floor(r / y) for a result r: None when r is None or y is zero
wide_checked_div(r, y) == IF r.ok /\ y # <<>> THEN Some(wide_div(r.val, y)) ELSE None

\* x.fixed_mul_floor(y, denominator) = floor(x * y / denominator)
wide_fixed_mul_floor(x, y, denominator) ==
    wide_checked_div(wide_checked(wide_mul(x, y)), denominator)

\* x.fixed_div_floor(y, denominator) = floor(x * denominator / y)
wide_fixed_div_floor(x, y, denominator) ==
    wide_checked_div(wide_checked(wide_mul(x, denominator)), y)

\* PoolBalance::non_queued_tokens
wide_non_queued_tokens(b) ==
    wide_sub(b.tokens, IF b.shares = <<>> THEN b.q4w
                       ELSE wide_div(wide_mul(b.q4w, b.tokens), b.shares))

\* The storage the test sets up: the ledger and the mocked Emitter at
\* T0 + JUMP, last_distribution_time T0, index 0, a pool with 1_0000000 tokens
\* and shares and an empty record (backfill status Some(false), the pool alone
\* in the reward zone).  ahead: the test's Emitter, re-created JUMP ahead of
\* the ledger after every round; otherwise an Emitter that has distributed up
\* to the ledger timestamp.  even: every interval distributed so far was JUMP.
wide_storage(ahead) ==
    [ahead |-> ahead, round |-> 0, phase |-> "distribute", err |-> "Ok", even |-> TRUE,
     now |-> wide_add(wide_of(T0), JUMP),
     emitter |-> wide_add(wide_of(T0), JUMP),
     last_distribution_time |-> wide_of(T0),
     rz_emission_index |-> <<>>,
     rz_emis |-> [index |-> <<>>, accrued |-> <<>>],
     balance |-> [tokens |-> WIDE_SCALAR_7, shares |-> WIDE_SCALAR_7, q4w |-> <<>>],
     backstop_emis |-> [some |-> FALSE, eps |-> <<>>, expiration |-> <<>>,
                        index |-> <<>>, last_time |-> <<>>],
     allowance |-> <<>>]

\* a variant that scales the index by SCALAR_7 in place of SCALAR_14
wide_additional_index_scalar_7(new_emissions, total) ==
    wide_fixed_div_floor(new_emissions, total, WIDE_SCALAR_7)

\* the growth of the global index for new_emissions over total tokens
wide_additional_index(new_emissions, total) ==
    wide_fixed_div_floor(new_emissions, total, WIDE_SCALAR_14)

\* distribute on storage w: [err, last, index, ret].  The Emitter answers and
\* the backfill status is Some(false), so neither a backfill arm nor the reset
\* is entered; the reward zone holds the one pool.
wide_distribute(w) ==
    LET fail(err) == [err |-> err, last |-> w.last_distribution_time,
                      index |-> w.rz_emission_index, ret |-> <<>>]
        set(new_emissions, new_index) ==
            IF ~new_index.ok THEN fail("Trap")
            ELSE [err |-> "Ok", last |-> w.emitter, index |-> new_index.val,
                  ret |-> new_emissions.val]
        add(new_emissions) ==
            set(new_emissions,
                IF new_emissions.ok
                THEN wide_checked_add(w.rz_emission_index,
                         wide_additional_index(new_emissions.val,
                                               wide_non_queued_tokens(w.balance)))
                ELSE None)
    IN IF w.last_distribution_time = <<>>
       THEN [err |-> "Ok", last |-> w.emitter, index |-> w.rz_emission_index,
             ret |-> <<>>]
       ELSE IF ~wide_less(wide_add(w.last_distribution_time, wide_of(HOUR)), w.emitter)
       THEN fail("BadRequest")
       ELSE add(wide_checked(wide_mul(wide_sub(w.emitter, w.last_distribution_time),
                                      WIDE_SCALAR_7)))

\* the amount by which floor(-(x * y) / denominator) is below zero: the
\* quotient rounded up; None when the product is below i128::MIN
wide_fixed_mul_floor_below(x, y, denominator) ==
    LET product == wide_mul(x, y)
    IN IF wide_less(wide_add(WIDE_I128_MAX, <<1>>), product) THEN None
       ELSE Some(wide_div(wide_add(product, wide_sub(denominator, <<1>>)), denominator))

\* update_rz_emis_data(pool, true) on storage w: [err, data, ret, negative].
\* The value returned is ret, or -ret when negative is set: a record whose
\* index is above the global index takes the difference off the accrued
\* amount.
wide_update_rz_emis_data(w) ==
    LET d == w.rz_emis
        gulp_index == w.rz_emission_index
        gulped(non_queued, accrued) ==
            IF non_queued = <<>>
            THEN [err |-> "Ok", data |-> [index |-> gulp_index, accrued |-> <<>>],
                  ret |-> d.accrued, negative |-> FALSE]
            ELSE IF ~accrued.ok
            THEN [err |-> "Trap", data |-> d, ret |-> <<>>, negative |-> FALSE]
            ELSE [err |-> "Ok", data |-> [index |-> gulp_index, accrued |-> <<>>],
                  ret |-> accrued.val, negative |-> FALSE]
        accrue(non_queued) ==
            gulped(non_queued,
                   wide_checked_add(d.accrued,
                       wide_fixed_mul_floor(non_queued, wide_sub(gulp_index, d.index),
                                            WIDE_SCALAR_14)))
        lost(non_queued, below) ==
            IF non_queued = <<>> THEN gulped(non_queued, Some(d.accrued))
            ELSE IF ~below.ok
            THEN [err |-> "Trap", data |-> d, ret |-> <<>>, negative |-> FALSE]
            ELSE IF wide_less(d.accrued, below.val)
            THEN [err |-> "Ok", data |-> [index |-> gulp_index, accrued |-> <<>>],
                  ret |-> wide_sub(below.val, d.accrued), negative |-> TRUE]
            ELSE gulped(non_queued, Some(wide_sub(d.accrued, below.val)))
        lose(non_queued) ==
            lost(non_queued,
                 wide_fixed_mul_floor_below(non_queued, wide_sub(d.index, gulp_index),
                                            WIDE_SCALAR_14))
    IN IF wide_less(gulp_index, d.index)
       THEN lose(wide_non_queued_tokens(w.balance))
       ELSE accrue(wide_non_queued_tokens(w.balance))

\* distributor::update_emission_data on the pool's backstop record d at ledger
\* time timestamp: [err, data].  The division by the shares that are not
\* queued traps when all of them are queued (q4w never exceeds shares)
wide_update_emission_data(d, b, timestamp) ==
    LET max_timestamp == IF wide_less(d.expiration, timestamp)
                         THEN d.expiration ELSE timestamp
        additional(emitted) ==
            IF emitted.ok
            THEN wide_fixed_div_floor(emitted.val, wide_sub(b.shares, b.q4w), WIDE_SCALAR_7)
            ELSE None
        store(index) ==
            IF index.ok
            THEN [err |-> "Ok",
                  data |-> [d EXCEPT !.index = index.val, !.last_time = timestamp]]
            ELSE [err |-> "Trap", data |-> d]
    IN IF ~d.some THEN [err |-> "Ok", data |-> d]
       ELSE IF ~wide_less(d.last_time, d.expiration)
               \/ timestamp = d.last_time
               \/ d.eps = <<>>
               \/ b.shares = <<>>
       THEN [err |-> "Ok", data |-> d]
       ELSE store(wide_checked_add(d.index,
                additional(wide_checked(wide_mul(wide_sub(max_timestamp, d.last_time),
                                                 d.eps)))))

\* the eps that emits tokens_left_to_emit (None when computing it overflowed)
\* over one week: None when the product overflows the i128 or the quotient does
\* not fit a u64
wide_eps_of(tokens_left_to_emit) ==
    LET u64(quotient) ==
            IF quotient.ok /\ ~wide_less(WIDE_U64_MAX, quotient.val) THEN quotient
            ELSE None
    IN IF tokens_left_to_emit.ok
       THEN u64(wide_fixed_mul_floor(tokens_left_to_emit.val, WIDE_SCALAR_7, wide_of(WEEK)))
       ELSE None

\* set_backstop_emission_eps(pool, pool_balance, new_tokens) on the pool's
\* backstop record d: [err, data]
wide_set_backstop_emission_eps(d, b, timestamp, new_tokens) ==
    LET tokens_left_to_emit(data) ==
            IF ~data.some THEN Some(new_tokens)
            ELSE IF ~wide_less(timestamp, data.expiration) THEN wide_checked(new_tokens)
            ELSE wide_checked_add(new_tokens,
                     wide_fixed_mul_floor(data.eps, wide_sub(data.expiration, timestamp),
                                          WIDE_SCALAR_7))
        set(updated, eps) ==
            IF updated.err # "Ok" THEN [err |-> updated.err, data |-> d]
            ELSE IF ~eps.ok THEN [err |-> "Trap", data |-> d]
            ELSE [err |-> "Ok",
                  data |-> [some |-> TRUE, eps |-> eps.val,
                            expiration |-> wide_add(timestamp, wide_of(WEEK)),
                            index |-> updated.data.index, last_time |-> timestamp]]
        with(updated) == set(updated, wide_eps_of(tokens_left_to_emit(updated.data)))
    IN with(wide_update_emission_data(d, b, timestamp))

\* gulp_emissions(pool) on storage w: [err, rz_emis, backstop_emis, allowance,
\* ret, ret2]
wide_gulp_emissions(w) ==
    LET fail(err) == [err |-> err, rz_emis |-> w.rz_emis,
                      backstop_emis |-> w.backstop_emis, allowance |-> w.allowance,
                      ret |-> <<>>, ret2 |-> <<>>]
        split(u, new_backstop_emissions, new_pool_emissions, new_allowance, eps) ==
            IF u.err # "Ok" THEN fail(u.err)
            ELSE IF u.ret = <<>> \/ u.negative
            THEN [err |-> "Ok", rz_emis |-> u.data, backstop_emis |-> w.backstop_emis,
                  allowance |-> w.allowance, ret |-> <<>>, ret2 |-> <<>>]
            ELSE IF ~new_backstop_emissions.ok \/ ~new_pool_emissions.ok THEN fail("Trap")
            ELSE IF ~new_allowance.ok THEN fail("Trap")
            ELSE IF eps.err # "Ok" THEN fail(eps.err)
            ELSE [err |-> "Ok", rz_emis |-> u.data, backstop_emis |-> eps.data,
                  allowance |-> new_allowance.val,
                  ret |-> new_backstop_emissions.val, ret2 |-> new_pool_emissions.val]
        approve(u, new_backstop_emissions, new_pool_emissions) ==
            split(u, new_backstop_emissions, new_pool_emissions,
                  wide_checked_add(w.allowance, new_pool_emissions),
                  wide_set_backstop_emission_eps(w.backstop_emis, w.balance, w.now,
                                                 new_backstop_emissions.val))
        shares(u, new_backstop_emissions) ==
            approve(u, new_backstop_emissions,
                    wide_fixed_mul_floor(u.ret, wide_of(3000000), WIDE_SCALAR_7))
        with(u) == shares(u, wide_fixed_mul_floor(u.ret, wide_of(7000000), WIDE_SCALAR_7))
    IN with(wide_update_rz_emis_data(w))

\* the test's call of distribute; a failure ends the test
WideDistribute ==
    /\ wide.err = "Ok"
    /\ wide.phase = "distribute"
    /\ wide.round < Rounds
    /\ \E o \in {wide_distribute(wide)} :
          wide' = IF o.err # "Ok" THEN [wide EXCEPT !.err = o.err]
                  ELSE [wide EXCEPT !.phase = "gulp",
                                    !.last_distribution_time = o.last,
                                    !.rz_emission_index = o.index,
                                    !.even = wide.even
                                             /\ o.ret = wide_mul(JUMP, WIDE_SCALAR_7)]
    /\ UNCHANGED <<backstop_vars, pool_vars>>

\* the test's call of gulp_emissions for the pool
WideGulp ==
    /\ wide.err = "Ok"
    /\ wide.phase = "gulp"
    /\ \E o \in {wide_gulp_emissions(wide)} :
          wide' = IF o.err # "Ok" THEN [wide EXCEPT !.err = o.err]
                  ELSE [wide EXCEPT !.phase = "jump",
                                    !.round = wide.round + 1,
                                    !.rz_emis = o.rz_emis,
                                    !.backstop_emis = o.backstop_emis,
                                    !.allowance = o.allowance]
    /\ UNCHANGED <<backstop_vars, pool_vars>>

\* the ledger moves JUMP seconds on and the Emitter's time is set anew
WideJump ==
    LET timestamp == wide_add(wide.now, JUMP)
    IN /\ wide.err = "Ok"
       /\ wide.phase = "jump"
       /\ wide' = [wide EXCEPT !.phase = "distribute",
                               !.now = timestamp,
                               !.emitter = IF wide.ahead THEN wide_add(timestamp, JUMP)
                                           ELSE timestamp]
       /\ UNCHANGED <<backstop_vars, pool_vars>>

(***************************************************************************)
(* Specification                                                           *)
(***************************************************************************)
Init ==
    /\ max_rz_size = MAX_RZ_SIZE
    /\ now = T0
    /\ ticks = 0
    /\ emitter \in {[registered |-> FALSE, last_distro |-> 0],
                     [registered |-> TRUE, last_distro |-> T0]}
    /\ reward_zone = <<>>
    /\ rz_emission_index = 0
    /\ rz_emis_data = [p \in Pools |-> NoRzData]
    /\ last_distribution_time = 0
    /\ backfill_status = "None"
    /\ backfill_emissions = 0
    /\ pool_balance \in {[p \in Pools |-> IF p \in Funded THEN b[p] ELSE NoDeposits] :
                             b \in InitialBalances}
    /\ allowance = [p \in Pools |-> 0]
    /\ backstop_emis_data = [p \in Pools |-> NoBackstopData]
    /\ credited = 0
    /\ paid = [p \in Pools |-> 0]
    /\ PoolInit
    /\ wide = wide_storage(TRUE)

Next ==
    \/ \E d \in TickSteps : Tick(d)
    \/ EmitterSwap
    \/ EmitterDistribute
    \/ Distribute
    \/ \E p \in Funded : GulpEmissions(p)
    \/ \E p \in Funded : UpdateRzEmisData(p)
    \/ \E p \in Funded, r \in {0} \cup Funded, a \in BOOLEAN : AddToRewardZone(p, r, a)
    \/ \E p \in Funded, a \in BOOLEAN : RemoveFromRewardZone(p, a)

Spec == Init /\ [][Next]_vars

\* The same contract with an Emitter that recognises the backstop from the
\* start, and with depositors who queue their shares for withdrawal.
InitQ4w == Init /\ emitter.registered

NextQ4w ==
    \/ \E d \in TickSteps : Tick(d)
    \/ EmitterDistribute
    \/ Distribute
    \/ \E p \in Funded : GulpEmissions(p)
    \/ \E p \in Funded : QueueWithdrawal(p)
    \/ \E p \in Funded, r \in {0} \cup Funded, a \in BOOLEAN : AddToRewardZone(p, r, a)
    \/ \E p \in Funded, a \in BOOLEAN : RemoveFromRewardZone(p, a)

SpecQ4w == InitQ4w /\ [][NextQ4w]_vars

\* The same contract over pools of which two hold the same deposit (pools 2 and
\* 3 hold 8 tokens; non-queued tokens 1, 6 and 0 as before).
EqualBalances ==
    <<PoolBalance(2, 2, 1), PoolBalance(8, 3, 1), PoolBalance(8, 8, 8)>>

InitEqual ==
    /\ max_rz_size = MAX_RZ_SIZE
    /\ now = T0
    /\ ticks = 0
    /\ emitter \in {[registered |-> FALSE, last_distro |-> 0],
                     [registered |-> TRUE, last_distro |-> T0]}
    /\ reward_zone = <<>>
    /\ rz_emission_index = 0
    /\ rz_emis_data = [p \in Pools |-> NoRzData]
    /\ last_distribution_time = 0
    /\ backfill_status = "None"
    /\ backfill_emissions = 0
    /\ pool_balance = [p \in Pools |-> IF p \in Funded THEN EqualBalances[p]
                                                ELSE NoDeposits]
    /\ allowance = [p \in Pools |-> 0]
    /\ backstop_emis_data = [p \in Pools |-> NoBackstopData]
    /\ credited = 0
    /\ paid = [p \in Pools |-> 0]
    /\ PoolInit
    /\ wide = wide_storage(TRUE)

\* the calls that manage the reward zone, and the distributions and the clock
\* that its 24 hour guard depends on
NextEqual ==
    \/ \E d \in TickSteps : Tick(d)
    \/ EmitterDistribute
    \/ Distribute
    \/ \E p \in Funded, r \in {0} \cup Pools, a \in BOOLEAN : AddToRewardZone(p, r, a)
    \/ \E p \in Funded, a \in BOOLEAN : RemoveFromRewardZone(p, a)

SpecEqual == InitEqual /\ [][NextEqual]_vars

\* The contract built with a reward zone one pool larger, over four pools that
\* all hold deposits (non-queued tokens 1, 6, 0 and 9): a full reward zone has
\* three members, and a swap or a removal leaves two of them behind.
ZoneBalances ==
    <<PoolBalance(2, 2, 1), PoolBalance(8, 3, 1), PoolBalance(8, 8, 8),
      PoolBalance(9, 9, 0)>>

InitZone ==
    /\ max_rz_size = MAX_RZ_SIZE + 1
    /\ now = T0
    /\ ticks = 0
    /\ emitter = [registered |-> TRUE, last_distro |-> T0]
    /\ reward_zone = <<>>
    /\ rz_emission_index = 0
    /\ rz_emis_data = [p \in Pools |-> NoRzData]
    /\ last_distribution_time = 0
    /\ backfill_status = "None"
    /\ backfill_emissions = 0
    /\ pool_balance = [p \in Pools |-> IF p \in DOMAIN ZoneBalances THEN ZoneBalances[p]
                                     ELSE NoDeposits]
    /\ allowance = [p \in Pools |-> 0]
    /\ backstop_emis_data = [p \in Pools |-> NoBackstopData]
    /\ credited = 0
    /\ paid = [p \in Pools |-> 0]
    /\ PoolInit
    /\ wide = wide_storage(TRUE)

NextZone ==
    \/ \E d \in TickSteps : Tick(d)
    \/ EmitterDistribute
    \/ Distribute
    \/ \E p \in DOMAIN ZoneBalances, r \in {0} \cup Pools, a \in BOOLEAN : AddToRewardZone(p, r, a)
    \/ \E p \in Pools, a \in BOOLEAN : RemoveFromRewardZone(p, a)

SpecZone == InitZone /\ [][NextZone]_vars

\* The contract under an Emitter that starts and stops to answer for this
\* backstop, with a global index that is low, or HighIndex after a long
\* history of distributions.
HighIndex == I128_MAX - 10000 * SCALAR_7 * SCALAR_14

InitEmitter ==
    /\ max_rz_size = MAX_RZ_SIZE
    /\ now = T0
    /\ ticks = 0
    /\ emitter \in {[registered |-> FALSE, last_distro |-> 0],
                     [registered |-> TRUE, last_distro |-> T0]}
    /\ reward_zone = <<>>
    /\ rz_emission_index \in {0, HighIndex}
    /\ rz_emis_data = [p \in Pools |-> NoRzData]
    /\ last_distribution_time = 0
    /\ backfill_status = "None"
    /\ backfill_emissions = 0
    /\ pool_balance \in {[p \in Pools |-> IF p \in Funded THEN b[p] ELSE NoDeposits] :
                             b \in InitialBalances}
    /\ allowance = [p \in Pools |-> 0]
    /\ backstop_emis_data = [p \in Pools |-> NoBackstopData]
    /\ credited = 0
    /\ paid = [p \in Pools |-> 0]
    /\ PoolInit
    /\ wide = wide_storage(TRUE)

NextEmitter ==
    \/ \E d \in TickSteps : Tick(d)
    \/ EmitterSwap
    \/ EmitterDrop
    \/ EmitterDistribute
    \/ Distribute
    \/ \E p \in Funded : AddToRewardZone(p, 0, TRUE)

SpecEmitter == InitEmitter /\ [][NextEmitter]_vars

\* The pool's auction: one auction created at auction_block and filled while
\* the ledger advances.
InitAuction == Init /\ ~emitter.registered

NextAuction ==
    \/ \E c \in AuctionChoices : NewAuction(c[1], c[2])
    \/ \E p \in Percents : FillAuction(p)
    \/ AdvanceLedger

SpecAuction == InitAuction /\ [][NextAuction]_vars

\* The pool's status and reserves under calls with and without the admin's
\* authorisation, over a backstop whose deposits change.
NextAdmin ==
    \/ UpdateStatus
    \/ \E s \in 0..5, auth \in BOOLEAN : SetStatus(s, auth)
    \/ \E q \in Q4wLevels, m \in BOOLEAN : BackstopChange(q, m)
    \/ \E a \in Assets, auth \in BOOLEAN : QueueSetReserve(a, auth)
    \/ \E a \in Assets, auth \in BOOLEAN : CancelSetReserve(a, auth)
    \/ \E a \in Assets, auth \in BOOLEAN : SetReserve(a, auth)

SpecAdmin == InitAuction /\ [][NextAdmin]_vars

\* The storage of test_distribute_backfill_emissions_over_max: an Emitter that
\* does not recognise the backstop, a reward zone with deposits, and a backfill
\* accumulator (DAY + 9) * SCALAR_7 below the cap.  The last distribution lies
\* one of S3Elapsed seconds before the ledger timestamp (the test has DAY + 10).
S3Backfilled == MAX_BACKFILLED_EMISSIONS - (DAY + 9) * SCALAR_7

S3Elapsed == {HOUR, HOUR + 1, DAY + 1, DAY + 9, DAY + 10}

InitS3 ==
    /\ max_rz_size = MAX_RZ_SIZE
    /\ now = T0
    /\ ticks = 0
    /\ emitter = [registered |-> FALSE, last_distro |-> 0]
    /\ reward_zone = <<1, 2>>
    /\ rz_emission_index = 100 * SCALAR_14
    /\ rz_emis_data = [p \in Pools |-> IF p <= 2
                                       THEN RzEmissionData(100 * SCALAR_14, 0)
                                       ELSE NoRzData]
    /\ last_distribution_time \in {T0 - d : d \in S3Elapsed}
    /\ backfill_status \in {"None", "SomeTrue"}
    /\ backfill_emissions = S3Backfilled
    /\ pool_balance \in {[p \in Pools |-> IF p \in Funded THEN b[p] ELSE NoDeposits] :
                             b \in InitialBalances}
    /\ allowance = [p \in Pools |-> 0]
    /\ backstop_emis_data = [p \in Pools |-> NoBackstopData]
    /\ credited = 0
    /\ paid = [p \in Pools |-> 0]
    /\ PoolInit
    /\ wide = wide_storage(TRUE)

NextS3 ==
    \/ \E d \in TickSteps : Tick(d)
    \/ EmitterSwap
    \/ EmitterDistribute
    \/ Distribute
    \/ \E p \in Funded : GulpEmissions(p)

SpecS3 == InitS3 /\ [][NextS3]_vars

\* The storage of test_backstop_rz_changes after the only pool was removed from
\* the reward zone and time has passed: the reward zone is empty, the removed
\* pool's record is at MAX_INT, and the last distribution is one day old.  The
\* Emitter has distributed up to the ledger timestamp; it has recognised the
\* backstop from the start (status None) or since a backfill run (Some(true)).
InitRzChanges ==
    /\ max_rz_size = MAX_RZ_SIZE
    /\ now = T0
    /\ ticks = 0
    /\ emitter = [registered |-> TRUE, last_distro |-> T0]
    /\ reward_zone = <<>>
    /\ rz_emission_index = 100 * SCALAR_14
    /\ rz_emis_data = [p \in Pools |-> IF p = 1 THEN RzEmissionData(I128_MAX, 0)
                                       ELSE NoRzData]
    /\ last_distribution_time = T0 - DAY
    /\ backfill_status \in {"None", "SomeTrue"}
    /\ backfill_emissions = 0
    /\ pool_balance \in {[p \in Pools |-> IF p \in Funded THEN b[p] ELSE NoDeposits] :
                             b \in InitialBalances}
    /\ allowance = [p \in Pools |-> 0]
    /\ backstop_emis_data = [p \in Pools |-> NoBackstopData]
    /\ credited = 0
    /\ paid = [p \in Pools |-> 0]
    /\ PoolInit
    /\ wide = wide_storage(TRUE)

NextRzChanges ==
    \/ Tick(DAY)
    \/ EmitterDistribute
    \/ Distribute
    \/ \E p \in Funded : GulpEmissions(p)
    \/ \E p \in Funded, a \in BOOLEAN : AddToRewardZone(p, 0, a)

SpecRzChanges == InitRzChanges /\ [][NextRzChanges]_vars

\* test_distribute_gulp_no_overflow at full width: Rounds rounds of distribute
\* and gulp_emissions, the ledger JUMP seconds on after each, under the test's
\* Emitter and under an Emitter that follows the ledger.
InitNoOverflow ==
    /\ max_rz_size = MAX_RZ_SIZE
    /\ now = T0
    /\ ticks = 0
    /\ emitter = [registered |-> TRUE, last_distro |-> T0]
    /\ reward_zone = <<>>
    /\ rz_emission_index = 0
    /\ rz_emis_data = [p \in Pools |-> NoRzData]
    /\ last_distribution_time = 0
    /\ backfill_status = "None"
    /\ backfill_emissions = 0
    /\ pool_balance \in {[p \in Pools |-> IF p \in Funded THEN b[p] ELSE NoDeposits] :
                             b \in InitialBalances}
    /\ allowance = [p \in Pools |-> 0]
    /\ backstop_emis_data = [p \in Pools |-> NoBackstopData]
    /\ credited = 0
    /\ paid = [p \in Pools |-> 0]
    /\ PoolInit
    /\ wide \in {wide_storage(ahead) : ahead \in BOOLEAN}

NextNoOverflow ==
    \/ WideDistribute
    \/ WideGulp
    \/ WideJump

SpecNoOverflow == InitNoOverflow /\ [][NextNoOverflow]_vars

(***************************************************************************)
(* Properties                                                              *)
(***************************************************************************)
InZone(p) == \E i \in 1..Len(reward_zone) : reward_zone[i] = p

RECURSIVE SumOver(_, _)
SumOver(f, n) == IF n = 0 THEN 0 ELSE SumOver(f, n - 1) + f[n]

\* what the pools have realised: emissions accrued plus emissions gulped
Realised == SumOver([p \in Pools |-> rz_emis_data[p].accrued + paid[p]], NumPools)

\* the deposit of pool p that earns emissions
Earning(p) ==
    LET b == pool_balance[p]
    IN b.tokens - (IF b.shares = 0 THEN b.q4w ELSE (b.q4w * b.tokens) \div b.shares)

\* the earning deposits of the reward zone
ZoneTokens == SumOver([p \in Pools |-> IF InZone(p) THEN Earning(p) ELSE 0], NumPools)

\* emissions pool p has earned for the growth of the global index and not realised
Owed(p) == (Earning(p) * (rz_emission_index - rz_emis_data[p].index)) \div SCALAR_14

\* every pool of the reward zone has realised its share of the global index
NothingPending == \A p \in Pools : InZone(p) => rz_emis_data[p].index = rz_emission_index

\* C1: emission conservation.  Once every pool of the reward zone has realised
\* its share, the emissions realised by all pools (accrued plus gulped) equal
\* the emissions credited by distribute.
C1_Conservation == NothingPending => Realised = credited

\* C2: rz_emission_index never decreases.
C2_IndexMonotone == [][rz_emission_index' >= rz_emission_index]_vars

\* C2 witness: the index has grown in two distributions
C2_Witness == rz_emission_index > 0 /\ now = T0 + 2 * HOUR /\ last_distribution_time = now

NoDuplicates(rz) == \A i, j \in 1..Len(rz) : rz[i] = rz[j] => i = j

\* C3: the reward zone holds no pool twice and at most MAX_RZ_SIZE pools.
C3_RewardZoneBound == NoDuplicates(reward_zone) /\ Len(reward_zone) <= MAX_RZ_SIZE

\* C3 witness: a full reward zone after a swap evicted a pool
C3_Witness ==
    /\ Len(reward_zone) = MAX_RZ_SIZE
    /\ \E p \in Pools : ~InZone(p) /\ rz_emis_data[p].some /\ rz_emis_data[p].index = I128_MAX

\* a backfill run that has passed the reward-zone and one-hour guards
BackfillRun ==
    /\ ~emitter.registered
    /\ last_distribution_time # 0
    /\ Len(reward_zone) > 0
    /\ now > last_distribution_time + HOUR

\* C4: the stored backfill accumulator never exceeds MAX_BACKFILLED_EMISSIONS; a
\* backfill run whose new emissions would push it above the cap fails with
\* MaxBackfillEmissions and leaves the accumulator as it was.
C4_BackfillCap ==
    /\ backfill_emissions <= MAX_BACKFILLED_EMISSIONS
    /\ (BackfillRun /\ backfill_emissions + (now - last_distribution_time) * SCALAR_7
                          > MAX_BACKFILLED_EMISSIONS)
          => /\ distribute.err = "MaxBackfillEmissions"
             /\ distribute.backfill = backfill_emissions

\* C4 witness: a backfill run at the cap, after an earlier one was accumulated
C4_Witness ==
    /\ BackfillRun
    /\ backfill_emissions > 0
    /\ backfill_emissions + (now - last_distribution_time) * SCALAR_7
          > MAX_BACKFILLED_EMISSIONS

\* C5: an evicted pool keeps the emissions it earned up to the eviction: what it
\* can claim afterwards includes non_queued_tokens * (rz_emission_index - index).
C5_EvictionKeepsEarned ==
    [][\A p \in Pools :
          (InZone(p) /\ ~(\E i \in 1..Len(reward_zone') : reward_zone'[i] = p))
              => rz_emis_data'[p].accrued >= rz_emis_data[p].accrued + Owed(p)]_vars

\* C6: gulp_emissions on an evicted pool (index MAX_INT) with accrued a > 0
\* returns a split 70/30, leaves accrued = 0 and leaves the index at MAX_INT.
C6_EvictedGulp ==
    \A p \in Pools :
        (rz_emis_data[p].some /\ rz_emis_data[p].index = I128_MAX
            /\ rz_emis_data[p].accrued > 0)
        => LET o == gulp_emissions(p)
               a == rz_emis_data[p].accrued
           IN /\ o.err = "Ok"
              /\ o.ret = (7 * a) \div 10
              /\ o.ret2 = (3 * a) \div 10
              /\ o.data.accrued = 0
              /\ o.data.index = I128_MAX

\* the effective emitter time: the Emitter's, or the ledger's when the Emitter
\* does not recognise the backstop
EffectiveTime == IF emitter.registered THEN emitter.last_distro ELSE now

\* C7: the first distribute acknowledged by the Emitter after a backfill run
\* sets the status to Some(false), sets last_distribution_time to the Emitter's
\* time, returns 0 and leaves the index and the backfill accumulator unchanged;
\* no distribute credits more than the time since last_distribution_time, so
\* the skipped gap is never credited.
C7_BackfillReset ==
    [][/\ (emitter.registered /\ backfill_status = "SomeTrue" /\ Distribute)
            => /\ backfill_status' = "SomeFalse"
               /\ last_distribution_time' = emitter.last_distro
               /\ credited' = credited
               /\ rz_emission_index' = rz_emission_index
               /\ backfill_emissions' = backfill_emissions
       /\ (last_distribution_time # 0 /\ credited' # credited)
            => /\ credited' - credited = (EffectiveTime - last_distribution_time) * SCALAR_7
               /\ last_distribution_time' = EffectiveTime]_vars

\* C7 witness: the reset has run after backfilled emissions were credited and
\* after time passed that the Emitter's time skips
C7_Witness ==
    /\ backfill_status = "SomeFalse"
    /\ backfill_emissions > 0
    /\ credited = backfill_emissions
    /\ last_distribution_time = emitter.last_distro
    /\ last_distribution_time = T0 + DAY + HOUR

\* past bootstrapping and past the backfill-to-normal transition
PastTransition ==
    /\ last_distribution_time # 0
    /\ ~(emitter.registered /\ backfill_status = "SomeTrue")

\* C8 as stated: distribute is accepted when the reward zone is non-empty and
\* the effective emitter time is at least one hour beyond
\* last_distribution_time, and fails with BadRequest otherwise.
C8_AtLeastOneHour ==
    PastTransition =>
        distribute.err =
            IF Len(reward_zone) > 0 /\ EffectiveTime >= last_distribution_time + HOUR
            THEN "Ok" ELSE "BadRequest"

\* the emissions of a crediting run, in token units
NewEmissions == (EffectiveTime - last_distribution_time) * SCALAR_7

\* the arithmetic of a crediting run leaves the range of i128: in the sum of the
\* reward zone's non-queued tokens, in the emissions scaled by SCALAR_14, or in
\* the addition to the global index
CreditOverflows ==
    \/ ZoneTokens > I128_MAX
    \/ NewEmissions > I128_MAX \div SCALAR_14
    \/ /\ ZoneTokens > 0
       /\ rz_emission_index + (NewEmissions * SCALAR_14) \div ZoneTokens > I128_MAX

\* C8 as the code has it: distribute fails with BadRequest when the reward zone
\* is empty or the effective emitter time is not more than one hour beyond
\* last_distribution_time; otherwise a backfill run traps when the addition to
\* the accumulator overflows and fails with MaxBackfillEmissions when it
\* exceeds the cap; otherwise the call traps when the reward zone holds no
\* non-queued tokens or when the sum of the tokens, the scaled emissions or the
\* new index overflows, and is accepted in every other case.
C8_MoreThanOneHour ==
    PastTransition =>
        distribute.err =
            IF Len(reward_zone) = 0 \/ EffectiveTime <= last_distribution_time + HOUR
            THEN "BadRequest"
            ELSE IF ~emitter.registered /\ backfill_emissions + NewEmissions > I128_MAX
            THEN "Trap"
            ELSE IF ~emitter.registered
                    /\ backfill_emissions + NewEmissions > MAX_BACKFILLED_EMISSIONS
            THEN "MaxBackfillEmissions"
            ELSE IF ZoneTokens = 0 \/ CreditOverflows THEN "Trap"
            ELSE "Ok"

\* C8 witness: more than one hour after the last distribution, over a reward
\* zone with non-queued tokens, the addition to the global index overflows
C8_Witness ==
    /\ PastTransition
    /\ Len(reward_zone) > 0
    /\ ZoneTokens > 0
    /\ EffectiveTime > last_distribution_time + HOUR
    /\ rz_emission_index >= HighIndex
    /\ distribute.err = "Trap"

\* C9: a successful distribute past bootstrapping and the backfill reset, with
\* dt = effective emitter time - last_distribution_time, returns dt * SCALAR_7,
\* adds floor(dt * SCALAR_7 * SCALAR_14 / sum of the reward zone's non-queued
\* tokens) to rz_emission_index and sets last_distribution_time to the
\* effective emitter time.
C9_DistributeEffect ==
    [][(PastTransition /\ distribute.err = "Ok" /\ Distribute)
          => LET dt == EffectiveTime - last_distribution_time
             IN /\ credited' - credited = dt * SCALAR_7
                /\ rz_emission_index' =
                       rz_emission_index + (dt * SCALAR_7 * SCALAR_14) \div ZoneTokens
                /\ last_distribution_time' = EffectiveTime]_vars

\* C9 witness: one day distributed over the 7 non-queued tokens of two pools
C9_Witness ==
    /\ Len(reward_zone) = 2
    /\ ZoneTokens = 7
    /\ credited = DAY * SCALAR_7
    /\ rz_emission_index = (DAY * SCALAR_7 * SCALAR_14) \div 7
    /\ last_distribution_time = T0 + DAY

\* C10: distribute with last_distribution_time = 0 stores the effective emitter
\* time as last_distribution_time, returns 0 and leaves rz_emission_index and
\* the backfill accumulator unchanged.
C10_Bootstrap ==
    [][(last_distribution_time = 0 /\ Distribute)
          => /\ last_distribution_time' = EffectiveTime
             /\ credited' = credited
             /\ rz_emission_index' = rz_emission_index
             /\ backfill_emissions' = backfill_emissions]_vars

\* C10 witness: the first distribute stored the Emitter's time, which is older
\* than the ledger's
C10_Witness ==
    /\ emitter.registered
    /\ last_distribution_time = emitter.last_distro
    /\ last_distribution_time < now
    /\ credited = 0
    /\ rz_emission_index = 0
    /\ backfill_status = "None"

\* the failures the claim names, read off the storage: past bootstrapping and
\* the backfill reset, the reward zone is empty, or it is too early, or a
\* backfill run would exceed the cap
NamedFailure ==
    /\ PastTransition
    /\ \/ Len(reward_zone) = 0
       \/ EffectiveTime <= last_distribution_time + HOUR
       \/ /\ ~emitter.registered
          /\ backfill_emissions + NewEmissions > MAX_BACKFILLED_EMISSIONS

\* C11: a distribute call that fails leaves last_distribution_time,
\* rz_emission_index, the backfill accumulator and the backfill status as they
\* were before the call: so does the call in each of the named failures (empty
\* reward zone, too early, backfill cap exceeded), also where distribute has
\* written the backfill status before it fails, and so does every other call
\* that ends in an error.
C11_FailedDistributeAtomic ==
    [][((NamedFailure \/ distribute.err # "Ok") /\ Distribute)
          => /\ last_distribution_time' = last_distribution_time
             /\ rz_emission_index' = rz_emission_index
             /\ backfill_emissions' = backfill_emissions
             /\ backfill_status' = backfill_status]_vars

\* C11 witness: a backfill run that is too early, on a status that was never
\* set: distribute writes Some(true) (manager.rs:122) before it fails
C11_Witness ==
    /\ NamedFailure
    /\ ~emitter.registered
    /\ backfill_status = "None"
    /\ Len(reward_zone) > 0
    /\ distribute.err = "BadRequest"

\* C12: add_to_reward_zone fails with BadRequest when to_add is already in the
\* reward zone, otherwise with InvalidRewardZoneEntry when to_add is below the
\* threshold, otherwise with RewardZoneFull when the zone is full and no
\* to_remove is given; in each case the reward zone and every emission record
\* are unchanged.
C12_AddFailures ==
    \A p \in Pools, r \in {0} \cup Pools, a \in BOOLEAN :
        LET o == add_to_reward_zone(p, r, a)
            expected ==
                IF InZone(p) THEN "BadRequest"
                ELSE IF ~a THEN "InvalidRewardZoneEntry"
                ELSE IF Len(reward_zone) >= MAX_RZ_SIZE /\ r = 0 THEN "RewardZoneFull"
                ELSE "Ok"
        IN expected # "Ok"
              => o.err = expected /\ o.rz = reward_zone /\ o.data = rz_emis_data

\* C12 witness: a full reward zone with a pool outside it, after a distribution
C12_Witness ==
    /\ Len(reward_zone) = MAX_RZ_SIZE
    /\ rz_emission_index > 0
    /\ \E p \in Pools : ~InZone(p) /\ add_to_reward_zone(p, 0, TRUE).err = "RewardZoneFull"
    /\ \E p \in Pools : InZone(p) /\ add_to_reward_zone(p, 0, TRUE).err = "BadRequest"

\* the sequence rz without the pool r
Without(rz, r) == SelectSeq(rz, LAMBDA x : x # r)

\* C13: a successful add_to_reward_zone puts to_add at the front of the reward
\* zone and keeps every other member in its previous order: with room in the
\* zone nothing is evicted (even if a to_remove is supplied), and in a full zone
\* exactly to_remove is evicted, so the zone stays full.
C13_AddFrame ==
    \A p \in Pools, r \in {0} \cup Pools, a \in BOOLEAN :
        LET o == add_to_reward_zone(p, r, a)
        IN o.err = "Ok"
              => /\ Len(o.rz) > 0
                 /\ Head(o.rz) = p
                 /\ IF Len(reward_zone) < max_rz_size
                    THEN Tail(o.rz) = reward_zone
                    ELSE /\ InZone(r)
                         /\ Tail(o.rz) = Without(reward_zone, r)
                         /\ Len(o.rz) = max_rz_size

\* C13 witness: a full reward zone of three pools, in which pool 4 takes the
\* place of the member in the middle and the two others keep their order
C13_Witness ==
    /\ Len(reward_zone) = max_rz_size
    /\ reward_zone = <<1, 2, 3>>
    /\ add_to_reward_zone(4, 2, TRUE).err = "Ok"
    /\ add_to_reward_zone(4, 2, TRUE).rz = <<4, 1, 3>>

\* C14: on a full reward zone, add_to_reward_zone(to_add, to_remove) of an
\* eligible pool outside the zone fails with InvalidRewardZoneEntry unless
\* to_add holds strictly more tokens than to_remove (equal deposits are
\* rejected), and also when to_remove is not a member of the zone; the
\* failure changes nothing.
C14_SwapRejected ==
    \A p \in Pools, r \in Pools :
        (~InZone(p) /\ Len(reward_zone) >= max_rz_size)
        => LET o == add_to_reward_zone(p, r, TRUE)
           IN IF pool_balance[p].tokens <= pool_balance[r].tokens \/ ~InZone(r)
              THEN /\ o.err = "InvalidRewardZoneEntry"
                   /\ o.rz = reward_zone
                   /\ o.data = rz_emis_data
              ELSE o.err # "InvalidRewardZoneEntry"

\* C14 witness: a full reward zone with pool 3 in it and pool 2 outside.  Pool
\* 2 holds the same deposit as pool 3, and more than pool 4, which is not a
\* member: the swap for pool 3 fails on the comparison, and the swap for pool 4
\* passes the comparison and fails in remove_pool
C14_Witness ==
    /\ Len(reward_zone) = max_rz_size
    /\ InZone(3)
    /\ ~InZone(2)
    /\ pool_balance[2].tokens = pool_balance[3].tokens
    /\ add_to_reward_zone(2, 3, TRUE).err = "InvalidRewardZoneEntry"
    /\ ~InZone(4)
    /\ pool_balance[2].tokens > pool_balance[4].tokens
    /\ add_to_reward_zone(2, 4, TRUE).err = "InvalidRewardZoneEntry"

\* the answer of the 24 hour guard in the current state
FreshnessAnswer == IF last_distribution_time < now - DAY THEN "BadRequest" ELSE "Ok"

\* C15: evicting a member of the reward zone, by remove_from_reward_zone of a
\* pool below the threshold or by a swap that passed the deposit comparison,
\* fails with BadRequest when last_distribution_time lies more than 24 hours
\* before the ledger timestamp, and succeeds when the last distribution is
\* exactly 24 hours old or more recent.
C15_EvictionFreshness ==
    \A r \in Pools :
        InZone(r)
        => /\ remove_from_reward_zone(r, FALSE).err = FreshnessAnswer
           /\ \A p \in Pools :
                 (~InZone(p) /\ Len(reward_zone) >= MAX_RZ_SIZE
                     /\ pool_balance[p].tokens > pool_balance[r].tokens)
                 => add_to_reward_zone(p, r, TRUE).err = FreshnessAnswer

\* C15 witness: the last distribution is exactly 24 hours old and a swap is possible
C15_Witness ==
    /\ last_distribution_time = now - DAY
    /\ Len(reward_zone) = MAX_RZ_SIZE
    /\ \E p \in Pools, r \in Pools :
          /\ ~InZone(p)
          /\ InZone(r)
          /\ pool_balance[p].tokens > pool_balance[r].tokens
          /\ add_to_reward_zone(p, r, TRUE).err = "Ok"

\* C16: eviction, by a swap or by remove_from_reward_zone, sets the evicted
\* pool's RzEmissionData.index to i128::MAX and leaves its accrued unchanged.
C16_EvictionRecord ==
    [][\A p \in Pools :
          (InZone(p) /\ ~(\E i \in 1..Len(reward_zone') : reward_zone'[i] = p))
             => /\ rz_emis_data'[p].some
                /\ rz_emis_data'[p].index = I128_MAX
                /\ rz_emis_data'[p].accrued = rz_emis_data[p].accrued]_vars

\* C16 witness: an evicted pool that had accrued emissions before its eviction
C16_Witness ==
    \E p \in Pools :
        /\ ~InZone(p)
        /\ rz_emis_data[p].some
        /\ rz_emis_data[p].index = I128_MAX
        /\ rz_emis_data[p].accrued > 0
        /\ paid[p] = 0

\* C17: after a successful add_to_reward_zone, to_add's RzEmissionData.index is
\* the global rz_emission_index of the call and its accrued is its previous
\* accrued (0 if it had no record); a realisation right after the add adds
\* nothing, so only later growth of the global index counts.
C17_AddedRecord ==
    \A p \in Pools, r \in {0} \cup Pools, a \in BOOLEAN :
        LET o == add_to_reward_zone(p, r, a)
        IN o.err = "Ok"
              => /\ o.data[p].some
                 /\ o.data[p].index = rz_emission_index
                 /\ o.data[p].accrued =
                        (IF rz_emis_data[p].some THEN rz_emis_data[p].accrued ELSE 0)
                 /\ update_rz_emis_data(o.data[p], pool_balance[p],
                                        rz_emission_index, FALSE).data = o.data[p]

\* C17 witness: pool 1 earned one day alone, was evicted, and re-joined the zone
\* after pool 2 earned a day alone: it kept its accrued and took the new index
C17_Witness ==
    /\ InZone(1)
    /\ InZone(2)
    /\ credited = 2 * DAY * SCALAR_7
    /\ rz_emis_data[1].accrued = DAY * SCALAR_7
    /\ rz_emis_data[1].index = rz_emission_index
    /\ rz_emission_index = DAY * SCALAR_7 * SCALAR_14 + (DAY * SCALAR_7 * SCALAR_14) \div 6

\* C18: remove_from_reward_zone fails with BadRequest for a pool that meets the
\* threshold and with InvalidRewardZoneEntry for a pool below the threshold
\* that is not in the zone, changing nothing; it succeeds only for a member
\* below the threshold, and then the zone is the old zone without that pool,
\* the other members in their previous order.
C18_RemoveFromRewardZone ==
    \A r \in Pools, a \in BOOLEAN :
        LET o == remove_from_reward_zone(r, a)
        IN /\ a => (o.err = "BadRequest" /\ o.rz = reward_zone /\ o.data = rz_emis_data)
           /\ (~a /\ ~InZone(r))
                 => (o.err = "InvalidRewardZoneEntry" /\ o.rz = reward_zone
                        /\ o.data = rz_emis_data)
           /\ o.err = "Ok"
                 => (~a /\ InZone(r) /\ o.rz = Without(reward_zone, r)
                        /\ Len(o.rz) = Len(reward_zone) - 1)

\* C18 witness: the member in the middle of a reward zone of three can be
\* removed and leaves the two others in their order, and a pool outside the
\* zone cannot be removed
C18_Witness ==
    /\ reward_zone = <<1, 2, 3>>
    /\ remove_from_reward_zone(2, FALSE).err = "Ok"
    /\ remove_from_reward_zone(2, FALSE).rz = <<1, 3>>
    /\ ~InZone(4)
    /\ remove_from_reward_zone(4, FALSE).err = "InvalidRewardZoneEntry"

\* the amount a gulp of pool p realises in the current state
RealisedByGulp(p) ==
    update_rz_emis_data(rz_emis_data[p], pool_balance[p], rz_emission_index, TRUE).ret

\* C19: a gulp_emissions that realises x > 0 for a pool hands floor(0.7 x) to
\* the pool's backstop EPS allocator and raises the pool's allowance by
\* floor(0.3 x); the two parts never sum to more than x and fall short of x by
\* at most 1.
C19_GulpSplit ==
    \A p \in Pools :
        LET o == gulp_emissions(p)
            x == RealisedByGulp(p)
            to_backstop == (7 * x) \div 10
            to_pool == (3 * x) \div 10
        IN (o.err = "Ok" /\ x > 0)
              => /\ o.allowance = allowance[p] + to_pool
                 /\ o.bdata = set_backstop_emission_eps(backstop_emis_data[p],
                                                        pool_balance[p], to_backstop).data
                 /\ o.ret = to_backstop
                 /\ o.ret2 = to_pool
                 /\ to_backstop + to_pool <= x
                 /\ to_backstop + to_pool >= x - 1

\* C19 witness: pool 1 gulped its share of one day distributed over 7 tokens,
\* an amount of which the two parts fall short by 1
C19_Witness ==
    LET x == ((DAY * SCALAR_7 * SCALAR_14) \div 7) \div SCALAR_14
    IN /\ paid[1] = x - 1
       /\ allowance[1] = (3 * x) \div 10
       /\ backstop_emis_data[1].some

\* the tokens of pool p's running EPS window that are not emitted yet
Carry(p) ==
    LET d == backstop_emis_data[p]
    IN IF d.some /\ d.expiration > now THEN (d.eps * (d.expiration - now)) \div SCALAR_7
       ELSE 0

\* C20: set_backstop_emission_eps called at time now with new_tokens (the
\* backstop part of a gulp) installs eps = floor((new_tokens + carry) * SCALAR_7
\* / WEEK), expiration = now + 7 days and last_time = now, where carry =
\* floor(prior eps * max(0, prior expiration - now) / SCALAR_7), 0 without a
\* record; the tokens payable over the new window never exceed new_tokens +
\* carry and fall short of it only by the floor rounding.
C20_EpsWindow ==
    \A p \in Pools :
        LET o == gulp_emissions(p)
            new_tokens == (7 * RealisedByGulp(p)) \div 10
            total == new_tokens + Carry(p)
            d == o.bdata
        IN (o.err = "Ok" /\ RealisedByGulp(p) > 0)
              => /\ d.some
                 /\ d.eps = (total * SCALAR_7) \div WEEK
                 /\ d.expiration = now + WEEK
                 /\ d.last_time = now
                 /\ d.eps * WEEK <= total * SCALAR_7
                 /\ (d.eps + 1) * WEEK > total * SCALAR_7

\* C20 witness: pool 1 gulped one day's emissions twice, a day apart: the second
\* window carries six days of the first over
C20_Witness ==
    LET new_tokens == (7 * DAY * SCALAR_7) \div 10
        first_eps == (new_tokens * SCALAR_7) \div WEEK
        carry == (first_eps * (WEEK - DAY)) \div SCALAR_7
    IN /\ backstop_emis_data[1].some
       /\ backstop_emis_data[1].last_time = T0 + 2 * DAY
       /\ backstop_emis_data[1].expiration = T0 + 2 * DAY + WEEK
       /\ backstop_emis_data[1].eps = ((new_tokens + carry) * SCALAR_7) \div WEEK
       /\ carry > 0


(***************************************************************************)
(* Properties of the pool's auctions                                       *)
(***************************************************************************)
\* the lot and bid modifiers as fractions of 200: the three segments of the
\* price curve
LotShare(dif) == IF dif <= 200 THEN dif ELSE 200
BidShare(dif) == IF dif <= 200 THEN 200 ELSE IF dif < 400 THEN 400 - dif ELSE 0

\* the blocks since the auction of a fill was created
FillDif == sequence - last_fill.before.block

\* C21: for every block difference dif >= 0, lot_modifier = dif * 0.005 and
\* bid_modifier = 1 when dif <= 200; lot_modifier = 1 and bid_modifier =
\* 1 - (dif - 200) * 0.005 when 200 < dif < 400; lot_modifier = 1 and
\* bid_modifier = 0 when dif >= 400; both lie in [0, 1] (7-digit fixed point).
C21_Modifiers ==
    auction.some =>
        LET dif == sequence - auction.block
            lm == lot_modifier(dif)
            bm == bid_modifier(dif)
        IN /\ dif >= 0
           /\ dif <= 200 => (lm * 200 = dif * AUCTION_SCALAR_7 /\ bm = AUCTION_SCALAR_7)
           /\ (200 < dif /\ dif < 400)
                 => (lm = AUCTION_SCALAR_7
                       /\ bm * 200 = (400 - dif) * AUCTION_SCALAR_7)
           /\ dif >= 400 => (lm = AUCTION_SCALAR_7 /\ bm = 0)
           /\ 0 <= lm /\ lm <= AUCTION_SCALAR_7
           /\ 0 <= bm /\ bm <= AUCTION_SCALAR_7

\* a fill 250 blocks after creation, where the bid modifier is 0.75
C21_Witness ==
    /\ last_fill.some /\ last_fill.err = "Ok"
    /\ FillDif = 250
    /\ bid_modifier(FillDif) = 7500000
    /\ lot_modifier(FillDif) = AUCTION_SCALAR_7

\* C22 as stated: a fill with percent_filled = p takes
\* floor(nominal_bid * p/100 * bid_modifier) of the bid, gives
\* floor(nominal_lot * p/100 * lot_modifier) of the lot and leaves the unfilled
\* nominal share; with p = 100 the auction entry is deleted.
C22_SingleFloor ==
    (last_fill.some /\ last_fill.err = "Ok") =>
        LET a == last_fill.before
            p == last_fill.percent
        IN /\ last_fill.paid = (a.bid * p * BidShare(FillDif)) \div (100 * 200)
           /\ last_fill.received = (a.lot * p * LotShare(FillDif)) \div (100 * 200)
           /\ IF p = 100 THEN ~auction.some
              ELSE auction = AuctionData(a.block, a.bid - (a.bid * p) \div 100,
                                         a.lot - (a.lot * p) \div 100)

\* C22 (amended): a fill with percent_filled = p first takes the nominal share
\* floor(nominal * p/100) of each asset and then scales it: the filler pays
\* floor(floor(nominal_bid * p/100) * bid_modifier), receives
\* floor(floor(nominal_lot * p/100) * lot_modifier), and the stored auction
\* keeps nominal - floor(nominal * p/100); with p = 100 the entry is deleted.
C22_FillAmounts ==
    (last_fill.some /\ last_fill.err = "Ok") =>
        LET a == last_fill.before
            p == last_fill.percent
            bid_base == (a.bid * p) \div 100
            lot_base == (a.lot * p) \div 100
        IN /\ last_fill.paid = (bid_base * BidShare(FillDif)) \div 200
           /\ last_fill.received = (lot_base * LotShare(FillDif)) \div 200
           /\ IF p = 100 THEN ~auction.some
              ELSE auction = AuctionData(a.block, a.bid - bid_base, a.lot - lot_base)

\* the example: bid 100, lot 100, half filled 200 blocks after creation
C22_Witness ==
    /\ last_fill.some /\ last_fill.err = "Ok"
    /\ last_fill.before = AuctionData(auction_block, 100, 100)
    /\ last_fill.percent = 50
    /\ FillDif = 200
    /\ last_fill.paid = 50 /\ last_fill.received = 50
    /\ auction = AuctionData(auction_block, 50, 50)

\* what two consecutive fills with percentages p1 and p2 transfer in the
\* current block
TwoFills(p1, p2) ==
    LET f1 == scale_auction(auction, p1, sequence)
        f2 == scale_auction(f1.remaining, p2, sequence)
    IN [paid |-> f1.paid + f2.paid, received |-> f1.received + f2.received,
        remaining |-> f2.remaining]

\* C23 as stated: at a fixed block, a fill of 100% transfers the same bid and
\* lot totals as two consecutive fills of 50%.
C23_TwoHalves ==
    auction.some =>
        LET one == scale_auction(auction, 100, sequence)
            two == TwoFills(50, 50)
        IN two.paid = one.paid /\ two.received = one.received

\* C23 (amended): at a fixed block, a fill of 50% followed by a fill of 100%
\* of what it left consumes the auction as one fill of 100% does and
\* transfers the same totals up to one unit of rounding per asset; a second
\* fill of 50% applies to what the first left, so two fills of 50% leave
\* nominal - floor(nominal/2) - floor((nominal - floor(nominal/2))/2).
C23_HalfThenRest ==
    auction.some =>
        LET one == scale_auction(auction, 100, sequence)
            rest == TwoFills(50, 100)
            two == TwoFills(50, 50)
            left(n) == (n - n \div 2) - (n - n \div 2) \div 2
        IN /\ ~one.remaining.some /\ ~rest.remaining.some
           /\ rest.paid \in {one.paid - 1, one.paid}
           /\ rest.received \in {one.received - 1, one.received}
           /\ two.remaining = AuctionData(auction.block, left(auction.bid),
                                          left(auction.lot))

\* a fill of 50% and a fill of 100% in the block the auction was created in
C23_Witness ==
    /\ sequence = auction_block
    /\ fills = 2
    /\ last_fill.some /\ last_fill.err = "Ok"
    /\ last_fill.percent = 100
    /\ last_fill.before = AuctionData(auction_block, 50, 50)
    /\ last_fill.paid = 50
    /\ ~auction.some

\* C24 as stated: a fill with percent_filled = 0 or > 100 is rejected with
\* InvalidLiquidation and the stored auction is unchanged.
C24_InvalidLiquidation ==
    (last_fill.some /\ (last_fill.percent = 0 \/ last_fill.percent > 100))
        => (last_fill.err = "InvalidLiquidation" /\ auction = last_fill.before)

\* C24 (amended): a fill with percent_filled = 0 or > 100 is rejected with
\* BadRequest and the stored auction is unchanged; every percent_filled from
\* 1 to 100 is accepted.
C24_BadPercent ==
    /\ last_fill.some =>
          IF last_fill.percent = 0 \/ last_fill.percent > 100
          THEN last_fill.err = "BadRequest" /\ auction = last_fill.before
          ELSE last_fill.err = "Ok"
    /\ auction.some =>
          \A p \in {0, 101, 102, 200} :
              LET o == scale_auction(auction, p, sequence)
              IN o.err = "BadRequest" /\ o.remaining = auction

\* a rejected fill of an auction with percent_filled = 0
C24_Witness ==
    /\ last_fill.some
    /\ last_fill.percent = 0
    /\ last_fill.err = "BadRequest"
    /\ auction = AuctionData(auction_block, 100, 100)

(***************************************************************************)
(* Properties of the pool's status and reserves                            *)
(***************************************************************************)
\* C25: when the queued share only grows between two consecutive
\* update_status calls, with the threshold condition constant and no
\* set_status in between, the second call returns a status code at least the
\* first's; while the status is admin-frozen (4) update_status is rejected and
\* the status stays 4.
C25_StatusMonotone ==
    /\ status_calls.n = 2 => status_calls.ret >= status_calls.prev
    /\ pool_status = 4 => (update_status.err # "Ok" /\ update_status.status = 4)

\* two consecutive calls: on-ice at 30% queued, then frozen at 60% or more
C25_Witness ==
    /\ status_calls = [n |-> 2, prev |-> 3, ret |-> 5]
    /\ q4w_pct >= 60
    /\ met_threshold
    /\ pool_status = 5

\* C26: set_reserve changes the pool's reserves only when the pool admin
\* authorised the call.
C26_SetReserveAdminOnly ==
    \A a \in Assets :
        LET o == set_reserve(a, FALSE)
        IN o.list = res_list /\ o.queue = res_queue


(***************************************************************************)
(* Properties of the realisation of a pool's share                         *)
(***************************************************************************)
\* a pool that was removed from the reward zone and not gulped since: its
\* record holds the index i128::MAX
Evicted(p) ==
    rz_emis_data[p].some /\ rz_emis_data[p].index = I128_MAX /\ ~InZone(p)

C28_EveryRecord ==
    \A p \in Pools, to_gulp \in BOOLEAN :
        rz_emis_data[p].some =>
            LET rec == rz_emis_data[p]
                n == non_queued_tokens(pool_balance[p])
                o == update_rz_emis_data(rec, pool_balance[p], rz_emission_index, to_gulp)
                earned == IF n > 0
                          THEN (n * (rz_emission_index - rec.index)) \div SCALAR_14
                          ELSE 0
            IN /\ o.err = "Ok"
               /\ o.data.index = rz_emission_index
               /\ IF to_gulp
                  THEN o.ret = rec.accrued + earned /\ o.data.accrued = 0
                  ELSE o.ret = 0 /\ o.data.accrued = rec.accrued + earned

\* C28 (amended): for a pool whose record holds an index at most the global
\* index, and for any record when to_gulp is set, update_rz_emis_data adds
\* floor(non_queued_tokens * (rz_emission_index - record.index) / 10^14) to
\* accrued and sets the index to the global index (it fails and changes
\* nothing when the product or the sum overflows); with to_gulp it returns the
\* whole accrued and stores 0, without it returns 0 and stores the new
\* accrued; with the index equal to the global index and without to_gulp the
\* record is unchanged, with no non-queued tokens nothing is added.  A record
\* whose index is above the global index is left unchanged without to_gulp.
C28_UpdateRzEmisData ==
    \A p \in Pools, to_gulp \in BOOLEAN :
        rz_emis_data[p].some =>
            LET rec == rz_emis_data[p]
                n == non_queued_tokens(pool_balance[p])
                d == rz_emission_index - rec.index
                o == update_rz_emis_data(rec, pool_balance[p], rz_emission_index, to_gulp)
                fits == n <= 0 \/ Abs(d) <= I128_MAX \div n
                earned == IF n > 0 THEN (n * d) \div SCALAR_14 ELSE 0
                total == rec.accrued + earned
            IN IF d < 0 /\ ~to_gulp
               THEN o = [err |-> "Ok", data |-> rec, ret |-> 0]
               ELSE IF fits
               THEN IF I128_MIN <= total /\ total <= I128_MAX
                    THEN /\ o.err = "Ok"
                         /\ o.data.index = rz_emission_index
                         /\ IF to_gulp
                            THEN o.ret = total /\ o.data.accrued = 0
                            ELSE o.ret = 0 /\ o.data.accrued = total
                         /\ (d = 0 /\ ~to_gulp) => o.data = rec
                         /\ n = 0 => total = rec.accrued
                    ELSE o.err = "Trap" /\ o.data = rec
               ELSE (Abs(d) > (I128_MAX + 1) \div n)
                        => (o.err = "Trap" /\ o.data = rec)

\* a pool of the reward zone whose share was realised without a gulp
C28_Witness ==
    \E p \in Pools :
        /\ InZone(p)
        /\ rz_emis_data[p].some
        /\ rz_emis_data[p].accrued > 0
        /\ rz_emis_data[p].index = rz_emission_index

\* C29 as stated: non_queued_tokens = tokens - q4w: update_rz_emis_data on a
\* pool with tokens T, queued amount Q and index growth d adds
\* floor((T - Q) * d / 10^14) to accrued.
C29_TokensMinusQ4w ==
    \A p \in Pools :
        LET rec == rz_emis_data[p]
            b == pool_balance[p]
            o == update_rz_emis_data(rec, b, rz_emission_index, FALSE)
        IN (rec.some /\ rec.index < rz_emission_index /\ o.err = "Ok")
              => o.data.accrued = rec.accrued
                    + ((b.tokens - b.q4w) * (rz_emission_index - rec.index))
                          \div SCALAR_14

\* C29 (amended): q4w counts shares: non_queued_tokens = tokens -
\* floor(q4w * tokens / shares), and update_rz_emis_data on a pool with tokens
\* T, shares S, queued shares Q and index growth d adds
\* floor((T - floor(Q * T / S)) * d / 10^14) to accrued.
C29_TokensMinusQueuedShares ==
    \A p \in Pools :
        LET rec == rz_emis_data[p]
            b == pool_balance[p]
            o == update_rz_emis_data(rec, b, rz_emission_index, FALSE)
            queued == IF b.shares = 0 THEN b.q4w ELSE (b.q4w * b.tokens) \div b.shares
        IN (rec.some /\ rec.index < rz_emission_index /\ o.err = "Ok")
              => o.data.accrued = rec.accrued
                    + ((b.tokens - queued) * (rz_emission_index - rec.index))
                          \div SCALAR_14

\* a pool whose queued shares are worth more tokens than their number, with a
\* realised share
C29_Witness ==
    \E p \in Pools :
        /\ non_queued_tokens(pool_balance[p]) > 0
        /\ non_queued_tokens(pool_balance[p]) # pool_balance[p].tokens - pool_balance[p].q4w
        /\ rz_emis_data[p].some
        /\ rz_emis_data[p].accrued > 0
        /\ rz_emis_data[p].index = rz_emission_index

\* C30: gulp_emissions and update_rz_emis_data for a pool without an
\* RzEmissionData record return zero without failing and create no record,
\* change no allowance and create no backstop EPS record.
C30_NoRecord ==
    \A p \in Pools :
        ~rz_emis_data[p].some =>
            /\ gulp_emissions(p) =
                  [err |-> "Ok", data |-> NoRzData, ret |-> 0, ret2 |-> 0,
                   allowance |-> allowance[p], bdata |-> backstop_emis_data[p]]
            /\ \A to_gulp \in BOOLEAN :
                  update_rz_emis_data(rz_emis_data[p], pool_balance[p],
                                      rz_emission_index, to_gulp)
                      = [err |-> "Ok", data |-> NoRzData, ret |-> 0]
            /\ rz_emis_data[p] = NoRzData
            /\ backstop_emis_data[p] = NoBackstopData
            /\ allowance[p] = 0

\* a pool with non-queued deposits and no record while the global index has
\* grown
C30_Witness ==
    \E p \in Pools :
        /\ ~rz_emis_data[p].some
        /\ non_queued_tokens(pool_balance[p]) > 0
        /\ rz_emission_index > 0
        /\ gulp_emissions(p).ret = 0

(***************************************************************************)
(* Properties of distribute: backfill, reward zone and time                *)
(***************************************************************************)
\* the state of scenario S3: a backfill run with the accumulator
\* (DAY + 9) * SCALAR_7 below the cap
S3State ==
    /\ ~emitter.registered
    /\ last_distribution_time # 0
    /\ Len(reward_zone) > 0
    /\ backfill_emissions = S3Backfilled

\* C31 as stated: in scenario S3, with 86 401 s elapsed since
\* last_distribution_time, distribute fails with MaxBackfillEmissions.
C31_S3AsStated ==
    (S3State /\ now - last_distribution_time = DAY + 1)
        => distribute.err = "MaxBackfillEmissions"

\* C31 as the code has it: in scenario S3 distribute fails with
\* MaxBackfillEmissions exactly when more than 86 409 s have elapsed since
\* last_distribution_time (the unit test has 86 410 s), and then changes
\* nothing; with 86 401 s elapsed it succeeds, returns 86 401 * SCALAR_7 and
\* leaves the accumulator 8 * SCALAR_7 below the cap.
C31_S3BackfillCap ==
    S3State =>
        LET elapsed == now - last_distribution_time
            o == distribute
        IN /\ (o.err = "MaxBackfillEmissions") <=> (elapsed > DAY + 9)
           /\ o.err = "MaxBackfillEmissions"
                => /\ o.backfill = backfill_emissions
                   /\ o.last = last_distribution_time
                   /\ o.index = rz_emission_index
                   /\ o.status = backfill_status
                   /\ o.ret = 0
           /\ elapsed = DAY + 1
                => /\ o.err = "Ok"
                   /\ o.ret = (DAY + 1) * SCALAR_7
                   /\ o.backfill = MAX_BACKFILLED_EMISSIONS - 8 * SCALAR_7

\* C31 witness: the unit test's state, 86 410 s after the last distribution
C31_Witness ==
    /\ S3State
    /\ backfill_status = "None"
    /\ now - last_distribution_time = DAY + 10
    /\ distribute.err = "MaxBackfillEmissions"

\* C32: a distribute in which the Emitter recognises the backstop leaves the
\* backfill status unchanged when it is None or Some(false); the only change
\* such a call makes to the status is from Some(true) to Some(false).
C32_AcknowledgedStatus ==
    emitter.registered =>
        distribute.status = IF backfill_status = "SomeTrue" THEN "SomeFalse"
                            ELSE backfill_status

\* C32 witness: acknowledged distributions have credited emissions after the
\* reset, and the status is still Some(false)
C32_Witness ==
    /\ emitter.registered
    /\ backfill_status = "SomeFalse"
    /\ credited > backfill_emissions
    /\ distribute.status = "SomeFalse"

\* C33 as stated: while the reward zone is empty distribute fails without
\* advancing last_distribution_time.
C33_EmptyZoneFails ==
    Len(reward_zone) = 0
        => distribute.err # "Ok" /\ distribute.last = last_distribution_time

\* C33 as the code has it: past bootstrapping and the backfill-to-normal
\* transition, while the reward zone is empty distribute fails with BadRequest
\* without advancing last_distribution_time; a pool that joins the empty reward
\* zone leaves last_distribution_time as it was, so the distribute that
\* succeeds next credits the whole interval since last_distribution_time, which
\* lies before the pool joined, and the pool's gulp then realises emissions
\* for that interval.
C33_EmptyZoneInterval ==
    [][/\ (PastTransition /\ Len(reward_zone) = 0)
            => /\ distribute.err = "BadRequest"
               /\ distribute.last = last_distribution_time
       /\ \A p \in Pools :
            (PastTransition /\ reward_zone = <<>> /\ reward_zone' = <<p>>)
                => /\ last_distribution_time' = last_distribution_time
                   /\ (distribute.err = "Ok")' =>
                        /\ (distribute.ret)' =
                               (EffectiveTime - last_distribution_time) * SCALAR_7
                        /\ last_distribution_time < EffectiveTime
                        /\ EffectiveTime <= now
                        /\ rz_new_emissions(non_queued_tokens(pool_balance[p]),
                                            (distribute.index)',
                                            rz_emis_data'[p].index).val > 0]_vars

\* C33 witness: the reward zone was empty for the day before T0; a pool joined
\* at T0, the day was credited and the pool's gulp has paid emissions out of it
C33_Witness ==
    /\ now = T0
    /\ reward_zone = <<2>>
    /\ credited = DAY * SCALAR_7
    /\ last_distribution_time = T0
    /\ paid[2] > 0

(***************************************************************************)
(* Properties of the arithmetic at full width                              *)
(***************************************************************************)
\* the global index after intervals worth n times JUMP seconds: n * 10^24
IndexAfter(n) == wide_mul(wide_of(n), wide_pow10(24))

\* the number of JUMP intervals distributed by the first k calls of distribute:
\* the test's Emitter is one JUMP ahead of the ledger from the second call on
Distributed(k) == IF wide.ahead /\ k >= 2 THEN k + 1 ELSE k

\* C34 as stated: after 100 distributions in a row, each of an interval of
\* 10^10 seconds, to the single pool holding 1 token, no call has failed and
\* the global index is 101 * 10^24.
C34_IndexAsStated ==
    (wide.round = Rounds /\ wide.even)
        => (wide.err = "Ok" /\ wide.rz_emission_index = IndexAfter(101))

\* C34: distribute followed by gulp_emissions, 100 times in a row for a single
\* reward-zone pool holding 1 token, never fails on an i128 overflow or on the
\* conversion of eps to a u64, and the index and eps stay in range; the global
\* index counts 10^24 for every 10^10 seconds distributed.  After the 100
\* rounds it is 100 * 10^24 when every interval was 10^10 seconds, and
\* 101 * 10^24 under the test's Emitter, whose second interval is 2 * 10^10
\* seconds.
C34_NoOverflow ==
    /\ wide.err = "Ok"
    /\ ~wide_less(WIDE_I128_MAX, wide.rz_emission_index)
    /\ ~wide_less(WIDE_U64_MAX, wide.backstop_emis.eps)
    /\ wide.rz_emission_index =
           IndexAfter(Distributed(IF wide.phase = "gulp" THEN wide.round + 1
                                  ELSE wide.round))
    /\ wide.round = Rounds =>
           /\ wide.even = ~wide.ahead
           /\ wide.rz_emission_index = IndexAfter(IF wide.even THEN 100 ELSE 101)

\* C34 witness: the test's 100 rounds have run, none failed, the second
\* interval was not 10^10 seconds and the index is 101 * 10^24.
C34_Witness ==
    /\ wide.round = Rounds
    /\ wide.ahead
    /\ ~wide.even
    /\ wide.err = "Ok"
    /\ wide.backstop_emis.some
    /\ wide.rz_emission_index = IndexAfter(101)

(***************************************************************************)
(* Properties of the emissions realised over time                          *)
(***************************************************************************)
\* C35: no over-distribution.  With the pool balances held fixed, the
\* emissions realised by all pools (accrued plus the amounts returned by
\* gulps) never exceed the sum of the values returned by distribute.
C35_NoOverDistribution == Realised <= credited

\* C36: a pool that is not in the reward zone never gains emissions: from its
\* eviction until it is added again neither update_rz_emis_data nor
\* gulp_emissions increases its accrued or returns more than it had accrued,
\* however far the global index grows.
C36_EvictedNeverGains ==
    \A p \in Pools :
        (rz_emis_data[p].some /\ ~InZone(p))
            => LET g == gulp_emissions(p)
                   u == update_rz_emis_data(rz_emis_data[p], pool_balance[p],
                                            rz_emission_index, FALSE)
               IN /\ g.ret + g.ret2 <= rz_emis_data[p].accrued
                  /\ g.data.accrued <= rz_emis_data[p].accrued
                  /\ u.data.accrued <= rz_emis_data[p].accrued

\* C37 as stated: the backfill accumulator changes only in a distribute run
\* during which the backfill status is Some(true); once the status is
\* Some(false) no distribute adds to the accumulator.
C37_BackfillOnlyWhileBackfilling ==
    [][/\ backfill_emissions' # backfill_emissions
            => /\ distribute.err = "Ok"
               /\ distribute.status = "SomeTrue"
               /\ backfill_status' = "SomeTrue"
               /\ credited' - credited = backfill_emissions' - backfill_emissions
       /\ backfill_status = "SomeFalse"
            => /\ backfill_emissions' = backfill_emissions
               /\ distribute.backfill = backfill_emissions]_vars

\* C37 (amended): the backfill accumulator changes only in a distribute run
\* that the Emitter does not answer, by the value the run returns, and no run
\* that the Emitter answers changes it.  Such a run has the status Some(true),
\* or Some(false) when an acknowledged run came before: the status then stays
\* Some(false) and the run adds to the accumulator all the same.
C37_BackfillOnlyInBackfillRun ==
    [][/\ backfill_emissions' # backfill_emissions
            => /\ ~emitter.registered
               /\ distribute.err = "Ok"
               /\ distribute.status \in {"SomeTrue", "SomeFalse"}
               /\ backfill_status' = distribute.status
               /\ credited' - credited = backfill_emissions' - backfill_emissions
       /\ emitter.registered
            => /\ backfill_emissions' = backfill_emissions
               /\ distribute.backfill = backfill_emissions
       /\ (~emitter.registered /\ backfill_status = "SomeFalse"
              /\ credited' # credited)
            => /\ backfill_status' = "SomeFalse"
               /\ backfill_emissions' - backfill_emissions = credited' - credited]_vars

\* C37 witness: the status is Some(false), the Emitter has stopped answering
\* and a day has passed: distribute adds the day to the accumulator
C37_Witness ==
    /\ backfill_status = "SomeFalse"
    /\ ~emitter.registered
    /\ distribute.err = "Ok"
    /\ distribute.backfill = backfill_emissions + DAY * SCALAR_7

\* C38: no second of the emitter stream is credited twice.  The effective
\* distribution time never decreases from one call to the next, and then
\* last_distribution_time never decreases, the call that records it first
\* returns 0, and every later call returns at most SCALAR_7 times the seconds
\* by which it advances last_distribution_time; so the sum of the values
\* returned is at most SCALAR_7 * (last_distribution_time - the first recorded
\* last_distribution_time), which is at most SCALAR_7 * (last_distribution_time
\* - T0).
C38_NoSecondTwice ==
    /\ [](last_distribution_time # 0
            => /\ last_distribution_time <= EffectiveTime
               /\ credited <= SCALAR_7 * (last_distribution_time - T0))
    /\ [][/\ EffectiveTime' >= EffectiveTime
          /\ last_distribution_time' >= last_distribution_time
          /\ last_distribution_time = 0 => credited' = credited
          /\ last_distribution_time # 0
                => credited' - credited
                       <= SCALAR_7 * (last_distribution_time' - last_distribution_time)]_vars

\* C38 witness: two days were credited in two distributions, each second once
C38_Witness ==
    /\ last_distribution_time = T0 + 2 * DAY
    /\ credited = SCALAR_7 * (last_distribution_time - T0)
    /\ rz_emission_index > 0

\* the order of the backfill status: None, Some(true), Some(false)
StatusRank(s) == IF s = "None" THEN 0 ELSE IF s = "SomeTrue" THEN 1 ELSE 2

\* C39: the backfill status never moves backwards: it only goes from None to
\* Some(true) and from Some(true) to Some(false), and once it is Some(false)
\* it never changes again.
C39_StatusForward ==
    [][/\ backfill_status' # backfill_status
            => /\ StatusRank(backfill_status') = StatusRank(backfill_status) + 1
               /\ distribute.status = backfill_status'
       /\ backfill_status = "SomeFalse" => backfill_status' = "SomeFalse"]_vars

\* C39 witness: the status went from None through Some(true) to Some(false),
\* and the next distribute would credit emissions and keep it
C39_Witness ==
    /\ backfill_status = "SomeFalse"
    /\ distribute.err = "Ok"
    /\ distribute.ret > 0
    /\ distribute.status = "SomeFalse"

\* C40: starting from an empty reward zone without emission records, every
\* pool in the reward zone has an RzEmissionData record whose index is at most
\* rz_emission_index (never MAX_INT), so no eviction fails on a missing
\* record.
C40_ZoneRecords ==
    /\ \A p \in Pools :
          InZone(p) => /\ rz_emis_data[p].some
                       /\ rz_emis_data[p].index <= rz_emission_index
                       /\ rz_emis_data[p].index # I128_MAX
    /\ \A p \in Pools, a \in BOOLEAN :
          remove_from_reward_zone(p, a).err # "Trap"
    /\ \A p \in Pools, r \in {0} \cup Pools, a \in BOOLEAN :
          add_to_reward_zone(p, r, a).err # "Trap"

\* C40 witness: after distributions, with one pool evicted, a pool of the
\* reward zone that has not realised the latest growth can be evicted
C40_Witness ==
    \E p, q \in Pools :
        /\ InZone(p)
        /\ rz_emis_data[p].index < rz_emission_index
        /\ ~InZone(q)
        /\ rz_emis_data[q].some
        /\ rz_emis_data[q].index = I128_MAX
        /\ remove_from_reward_zone(p, FALSE).err = "Ok"

====
